---- MODULE Spec2Model ----
(***************************************************************************)
(* Model of the command-construction and command-execution core of         *)
(* nestjs-svn (src/src/services/svn-base.service.ts, SvnBaseService).      *)
(*                                                                         *)
(* Strings are sequences of character codes (integers), so that the        *)
(* conversions of the code (percent-encoding, percent-decoding, entity     *)
(* decoding, URL parsing, quoting) are computed and not assumed.           *)
(*   32 ' '  34 '"'  35 '#'  37 '%'  38 '&'  39 "'"  46 '.'  47 '/'        *)
(*   58 ':'  59 ';'  63 '?'  92 '\'  48-57 '0'-'9'  65-90 'A'-'Z'          *)
(*   97-122 'a'-'z'  233 e-acute                                           *)
(***************************************************************************)
EXTENDS Integers, Sequences, FiniteSets, TLC

VARIABLES
  platform,        \* process.platform: "posix" stands for every value but "win32"
  defaultOptions,  \* SvnBaseService.defaultOptions
  pc,              \* what the caller has done so far
  call,            \* the operation called and its arguments
  ret,             \* the value the last call returned
  prev,            \* the value the call before it returned
  processEnv,      \* process.env, the environment of the host process
  children         \* the subprocesses the call in progress has launched, in order

vars == <<platform, defaultOptions, pc, call, ret, prev, processEnv, children>>

(***************************************************************************)
(* Bounds of the model.                                                    *)
(***************************************************************************)
\* longest token handed to escapeShellArg, in characters
MaxArgLen == 3

\* most fragments a raw path handed to resolvePath is made of
MaxPathParts == 2

\* most positional arguments of one buildSvnArgs call
MaxArgs == 2

(***************************************************************************)
(* Generic helpers.                                                        *)
(***************************************************************************)
\* F applied to the value of v; v is evaluated once, before F uses it
\* (a const declaration of the code)
Let(v, F(_)) == CHOOSE r \in {F(w) : w \in {v}} : TRUE

\* s.startsWith(p)
StartsWith(s, p) == Len(s) >= Len(p) /\ SubSeq(s, 1, Len(p)) = p

\* s.slice(n) for 0 <= n
DropN(s, n) == SubSeq(s, n + 1, Len(s))

\* s.replace(/pat/g, rep) for a literal, non-empty pattern, from position i:
\* leftmost, non-overlapping matches, the replacement is not rescanned
RECURSIVE ReplaceFrom(_, _, _, _)
ReplaceFrom(s, i, pat, rep) ==
  IF i + Len(pat) - 1 > Len(s) THEN SubSeq(s, i, Len(s))
  ELSE IF SubSeq(s, i, i + Len(pat) - 1) = pat
       THEN rep \o ReplaceFrom(s, i + Len(pat), pat, rep)
       ELSE <<s[i]>> \o ReplaceFrom(s, i + 1, pat, rep)

ReplaceAll(str, pat, rep) == Let(str, LAMBDA s : ReplaceFrom(s, 1, pat, rep))

\* the concatenation of the strings ss[i..]
RECURSIVE FlattenFrom(_, _)
FlattenFrom(ss, i) == IF i > Len(ss) THEN <<>> ELSE ss[i] \o FlattenFrom(ss, i + 1)

Flatten(strs) == Let(strs, LAMBDA ss : FlattenFrom(ss, 1))

\* parts.join(sep)
Join(parts, sep) ==
  Let(parts, LAMBDA ps :
    Flatten([i \in 1..Len(ps) |-> IF i = 1 THEN ps[i] ELSE sep \o ps[i]]))

\* the positions of s that hold a character of S, in increasing order
Positions(s, S) == SelectSeq([i \in 1..Len(s) |-> i], LAMBDA i : s[i] \in S)

\* s.split(c) for the separators S; never empty ("".split gives [""])
Split(str, S) ==
  Let(str, LAMBDA s :
    Let(<<0>> \o Positions(s, S) \o <<Len(s) + 1>>, LAMBDA cut :
      [i \in 1..(Len(cut) - 1) |-> SubSeq(s, cut[i] + 1, cut[i + 1] - 1)]))

\* the string made of f(c) for every character c of str
FlatMap(str, f(_)) == Let(str, LAMBDA s : Flatten([i \in 1..Len(s) |-> f(s[i])]))

\* all sequences over S of length 0..n
RECURSIVE SeqsUpTo(_, _)
SeqsUpTo(S, n) ==
  IF n = 0 THEN {<<>>}
  ELSE LET shorter == SeqsUpTo(S, n - 1)
       IN  shorter \cup {Append(s, c) : s \in {t \in shorter : Len(t) = n - 1}, c \in S}

(***************************************************************************)
(* Character classes.                                                      *)
(***************************************************************************)
IsDigit(c) == c >= 48 /\ c <= 57
IsUpper(c) == c >= 65 /\ c <= 90
IsLower(c) == c >= 97 /\ c <= 122
IsAlpha(c) == IsUpper(c) \/ IsLower(c)
\* the regular-expression class \w
IsWordChar(c) == IsAlpha(c) \/ IsDigit(c) \/ c = 95

(***************************************************************************)
(* escapeShellArg                                                          *)
(***************************************************************************)
Platforms == {"posix", "win32"}

\* the negation of the class [^\w\-./:=@%]
IsSafeChar(c) == IsWordChar(c) \/ c \in {45, 46, 47, 58, 61, 64, 37}

\* a plausible slip: every non-empty token is quoted, safe or not
escapeShellArgAlwaysQuote(arg, plat) ==
  IF arg = <<>> THEN arg
  ELSE IF plat = "win32"
       THEN <<34>> \o ReplaceAll(arg, <<34>>, <<92, 34>>) \o <<34>>
       ELSE <<39>> \o ReplaceAll(arg, <<39>>, <<39, 92, 39, 39>>) \o <<39>>

\* a plausible slip: the embedded quote is not escaped
escapeShellArgNoInnerEscape(arg, plat) ==
  IF arg = <<>> THEN arg
  ELSE IF \A i \in 1..Len(arg) : IsSafeChar(arg[i]) THEN arg
  ELSE IF plat = "win32"
       THEN <<34>> \o arg \o <<34>>
       ELSE <<39>> \o arg \o <<39>>

\* a plausible slip: on win32 the backslashes are doubled as well
escapeShellArgDoubleBackslash(arg, plat) ==
  IF arg = <<>> THEN arg
  ELSE IF \A i \in 1..Len(arg) : IsSafeChar(arg[i]) THEN arg
  ELSE IF plat = "win32"
       THEN <<34>> \o ReplaceAll(ReplaceAll(arg, <<92>>, <<92, 92>>), <<34>>, <<92, 34>>) \o <<34>>
       ELSE <<39>> \o ReplaceAll(arg, <<39>>, <<39, 92, 39, 39>>) \o <<39>>

escapeShellArg(arg, plat) ==
  IF arg = <<>> THEN arg
  ELSE IF \A i \in 1..Len(arg) : IsSafeChar(arg[i]) THEN arg
  ELSE IF plat = "win32"
       THEN <<34>> \o ReplaceAll(arg, <<34>>, <<92, 34>>) \o <<34>>
       ELSE <<39>> \o ReplaceAll(arg, <<39>>, <<39, 92, 39, 39>>) \o <<39>>

(***************************************************************************)
(* Percent-encoding and decoding (ECMAScript encodeURIComponent and        *)
(* decodeURIComponent).  The strings of the model hold no surrogate code   *)
(* units, so a character is a Unicode scalar value.                        *)
(***************************************************************************)
\* the value of a hexadecimal digit, -1 for any other character
HexVal(c) ==
  IF IsDigit(c) THEN c - 48
  ELSE IF c >= 65 /\ c <= 70 THEN c - 55
  ELSE IF c >= 97 /\ c <= 102 THEN c - 87
  ELSE -1

\* the upper-case hexadecimal digit of n in 0..15
HexDigit(n) == IF n < 10 THEN 48 + n ELSE 55 + n

\* %XX for the byte b
PctByte(b) == <<37, HexDigit(b \div 16), HexDigit(b % 16)>>

\* the UTF-8 bytes of the scalar value c
Utf8Bytes(c) ==
  IF c < 128 THEN <<c>>
  ELSE IF c < 2048 THEN <<192 + (c \div 64), 128 + (c % 64)>>
  ELSE IF c < 65536
       THEN <<224 + (c \div 4096), 128 + ((c \div 64) % 64), 128 + (c % 64)>>
       ELSE <<240 + (c \div 262144), 128 + ((c \div 4096) % 64),
              128 + ((c \div 64) % 64), 128 + (c % 64)>>

\* the percent-encoded UTF-8 bytes of c
PctEncodeChar(c) == FlatMap(Utf8Bytes(c), PctByte)

\* uriUnreserved of encodeURIComponent: alphanumerics and - _ . ! ~ * ' ( )
IsUriUnreserved(c) ==
  IsAlpha(c) \/ IsDigit(c) \/ c \in {45, 95, 46, 33, 126, 42, 39, 40, 41}

encodeURIComponent(s) ==
  FlatMap(s, LAMBDA c : IF IsUriUnreserved(c) THEN <<c>> ELSE PctEncodeChar(c))

\* the byte of the escape %XX at position i of s, -1 when there is none
PctByteAt(s, i) ==
  IF i + 2 <= Len(s) /\ s[i] = 37 /\ HexVal(s[i + 1]) >= 0 /\ HexVal(s[i + 2]) >= 0
  THEN 16 * HexVal(s[i + 1]) + HexVal(s[i + 2])
  ELSE -1

\* the low six bits of the continuation byte escaped at position i, else -1
ContAt(s, i) ==
  Let(PctByteAt(s, i), LAMBDA b : IF b >= 128 /\ b <= 191 THEN b - 128 ELSE -1)

\* the escape sequence at position i of s (s[i] = '%'): n characters consumed
\* and the character cp decoded; n = 0 stands for URIError
DecodeEscape(s, i) ==
  Let([b |-> PctByteAt(s, i), c1 |-> ContAt(s, i + 3), c2 |-> ContAt(s, i + 6),
       c3 |-> ContAt(s, i + 9)], LAMBDA e :
    LET bad == [n |-> 0, cp |-> 0]
        v2 == (e.b - 192) * 64 + e.c1
        v3 == (e.b - 224) * 4096 + e.c1 * 64 + e.c2
        v4 == (e.b - 240) * 262144 + e.c1 * 4096 + e.c2 * 64 + e.c3
    IN  IF e.b < 0 THEN bad
        ELSE IF e.b < 128 THEN [n |-> 3, cp |-> e.b]
        ELSE IF e.b >= 192 /\ e.b <= 223
             THEN IF e.c1 >= 0 /\ v2 >= 128 THEN [n |-> 6, cp |-> v2] ELSE bad
        ELSE IF e.b >= 224 /\ e.b <= 239
             THEN IF e.c1 >= 0 /\ e.c2 >= 0 /\ v3 >= 2048 /\ ~(v3 >= 55296 /\ v3 <= 57343)
                  THEN [n |-> 9, cp |-> v3] ELSE bad
        ELSE IF e.b >= 240 /\ e.b <= 247
             THEN IF e.c1 >= 0 /\ e.c2 >= 0 /\ e.c3 >= 0 /\ v4 >= 65536 /\ v4 <= 1114111
                  THEN [n |-> 12, cp |-> v4] ELSE bad
        ELSE bad)

\* decoding from position i on: ok = FALSE stands for URIError
RECURSIVE DecodeFrom(_, _)
DecodeFrom(s, i) ==
  IF i > Len(s) THEN [ok |-> TRUE, val |-> <<>>]
  ELSE Let(IF s[i] = 37 THEN DecodeEscape(s, i) ELSE [n |-> 1, cp |-> s[i]], LAMBDA r :
         IF r.n = 0 THEN [ok |-> FALSE, val |-> <<>>]
         ELSE Let(DecodeFrom(s, i + r.n), LAMBDA rest :
                [ok |-> rest.ok, val |-> <<r.cp>> \o rest.val]))

\* decodeURIComponent: ok = FALSE stands for the URIError it throws
decodeURIComponent(str) == Let(str, LAMBDA s : DecodeFrom(s, 1))

(***************************************************************************)
(* decodeHtmlEntities                                                      *)
(***************************************************************************)
\* the number of characters of s from position i on that are digits
\* (hexadecimal digits when hex)
RECURSIVE DigitRun(_, _, _)
DigitRun(s, i, hex) ==
  IF i <= Len(s) /\ (IF hex THEN HexVal(s[i]) >= 0 ELSE IsDigit(s[i]))
  THEN 1 + DigitRun(s, i + 1, hex)
  ELSE 0

\* parseInt of the digits s[i..j] in the given radix
RECURSIVE ParseInt(_, _, _, _)
ParseInt(s, i, j, radix) ==
  IF i > j THEN 0 ELSE ParseInt(s, i, j - 1, radix) * radix + HexVal(s[j])

\* String.fromCharCode(n): n is taken modulo 2^16
FromCharCode(n) == <<n % 65536>>

\* s.replace(/&#(\d+);/g, ...) when ~hex and s.replace(/&#x([\da-f]+);/gi, ...)
\* when hex, from position i on
RECURSIVE NumericRefsFrom(_, _, _)
NumericRefsFrom(s, i, hex) ==
  IF i > Len(s) THEN <<>>
  ELSE Let(IF hex THEN i + 3 ELSE i + 2, LAMBDA d :
         Let(IF /\ d <= Len(s)
                /\ s[i] = 38 /\ s[i + 1] = 35
                /\ (hex => s[i + 2] \in {120, 88})
             THEN DigitRun(s, d, hex) ELSE 0, LAMBDA n :
           IF n > 0 /\ d + n <= Len(s) /\ s[d + n] = 59
           THEN FromCharCode(ParseInt(s, d, d + n - 1, IF hex THEN 16 ELSE 10))
                  \o NumericRefsFrom(s, d + n + 1, hex)
           ELSE <<s[i]>> \o NumericRefsFrom(s, i + 1, hex)))

ReplaceNumericRefs(str, hex) == Let(str, LAMBDA s : NumericRefsFrom(s, 1, hex))

\* the chain of .replace() calls of lines 152-161, in their order
DecodeEntityChain(d) ==
  LET r1 == ReplaceAll(d, <<38, 97, 109, 112, 59>>, <<38>>)           \* &amp;
      r2 == ReplaceAll(r1, <<38, 108, 116, 59>>, <<60>>)             \* &lt;
      r3 == ReplaceAll(r2, <<38, 103, 116, 59>>, <<62>>)             \* &gt;
      r4 == ReplaceAll(r3, <<38, 113, 117, 111, 116, 59>>, <<34>>)   \* &quot;
      r5 == ReplaceAll(r4, <<38, 35, 51, 57, 59>>, <<39>>)           \* &#39;
      r6 == ReplaceAll(r5, <<38, 35, 120, 50, 55, 59>>, <<39>>)      \* &#x27;
      r7 == ReplaceAll(r6, <<38, 35, 120, 50, 70, 59>>, <<47>>)      \* &#x2F;
      r8 == ReplaceNumericRefs(r7, FALSE)
  IN  ReplaceNumericRefs(r8, TRUE)

decodeHtmlEntities(str) ==
  Let(decodeURIComponent(str), LAMBDA u : DecodeEntityChain(IF u.ok THEN u.val ELSE str))

(***************************************************************************)
(* The URL class of the runtime (WHATWG URL), as far as the strings of the *)
(* model exercise it: absolute URLs whose authority, when present, is a    *)
(* plain host name (no userinfo, no port, no IP address, ASCII only).      *)
(***************************************************************************)
ToLower(c) == IF IsUpper(c) THEN c + 32 ELSE c

LowerCase(str) == Let(str, LAMBDA s : [i \in 1..Len(s) |-> ToLower(s[i])])

\* the position of the first character of s that is in set S, 0 if none
FirstIn(s, S) == Let(Positions(s, S), LAMBDA ps : IF ps = <<>> THEN 0 ELSE ps[1])

\* the position of the ':' that ends a leading scheme [a-zA-Z][a-zA-Z0-9+.-]*,
\* 0 when s does not start with a scheme
SchemeEnd(str) ==
  Let(str, LAMBDA s :
    Let(FirstIn(s, {58}), LAMBDA k :
      IF k >= 2 /\ IsAlpha(s[1])
         /\ \A j \in 2..(k - 1) : IsAlpha(s[j]) \/ IsDigit(s[j]) \/ s[j] \in {43, 45, 46}
      THEN k ELSE 0))

\* http https ftp ws wss file
SpecialSchemes ==
  { <<104, 116, 116, 112>>, <<104, 116, 116, 112, 115>>, <<102, 116, 112>>,
    <<119, 115>>, <<119, 115, 115>>, <<102, 105, 108, 101>> }

FileScheme == <<102, 105, 108, 101>>

\* the number of characters at the start (dir = 1) or the end (dir = -1) of
\* s, counted from position i, that are C0 controls or spaces
RECURSIVE C0SpaceRun(_, _, _)
C0SpaceRun(s, i, dir) ==
  IF i >= 1 /\ i <= Len(s) /\ s[i] <= 32 THEN 1 + C0SpaceRun(s, i + dir, dir) ELSE 0

\* leading and trailing C0 controls and spaces are stripped, then every tab
\* and newline is removed
CleanUrlInput(str) ==
  Let(str, LAMBDA s :
    Let(C0SpaceRun(s, 1, 1), LAMBDA a :
      IF a = Len(s) THEN <<>>
      ELSE SelectSeq(SubSeq(s, a + 1, Len(s) - C0SpaceRun(s, Len(s), -1)),
                     LAMBDA c : c \notin {9, 10, 13})))

\* percent-encode sets
InC0Set(c) == c <= 31 \/ c > 126
InFragmentSet(c) == InC0Set(c) \/ c \in {32, 34, 60, 62, 96}
InQuerySet(c) == InC0Set(c) \/ c \in {32, 34, 35, 60, 62}
InSpecialQuerySet(c) == InQuerySet(c) \/ c = 39
InPathSet(c) == InQuerySet(c) \/ c \in {63, 94, 96, 123, 125}

PctEncodePath(s) ==
  FlatMap(s, LAMBDA c : IF InPathSet(c) THEN PctEncodeChar(c) ELSE <<c>>)

PctEncodeQuery(s, special) ==
  FlatMap(s, LAMBDA c : IF (IF special THEN InSpecialQuerySet(c) ELSE InQuerySet(c))
                        THEN PctEncodeChar(c) ELSE <<c>>)

PctEncodeFragment(s) ==
  FlatMap(s, LAMBDA c : IF InFragmentSet(c) THEN PctEncodeChar(c) ELSE <<c>>)

PctEncodeC0(s) ==
  FlatMap(s, LAMBDA c : IF InC0Set(c) THEN PctEncodeChar(c) ELSE <<c>>)

\* "." and "%2e"; "..", ".%2e", "%2e." and "%2e%2e" (ASCII case-insensitive)
IsSingleDot(seg) == LowerCase(seg) \in { <<46>>, <<37, 50, 101>> }

IsDoubleDot(seg) ==
  LowerCase(seg) \in { <<46, 46>>, <<46, 37, 50, 101>>, <<37, 50, 101, 46>>,
                      <<37, 50, 101, 37, 50, 101>> }

\* a Windows drive letter: a letter followed by ':' or '|'
IsDriveLetter(seg) == Len(seg) = 2 /\ IsAlpha(seg[1]) /\ seg[2] \in {58, 124}

\* shorten a path: the last segment is dropped, except the drive letter that
\* is the only segment of a file URL
ShortenPath(path, isFile) ==
  IF path = <<>> THEN path
  ELSE IF isFile /\ Len(path) = 1 /\ IsDriveLetter(path[1]) /\ path[1][2] = 58 THEN path
  ELSE SubSeq(path, 1, Len(path) - 1)

\* the path state over the raw segments segs[i..] (the text between
\* separators), the last of which is ended by the end of the path and not by
\* a separator; path is the URL's path so far
RECURSIVE PathStateFrom(_, _, _, _)
PathStateFrom(segs, i, isFile, path) ==
  IF i > Len(segs) THEN path
  ELSE Let(PctEncodePath(segs[i]), LAMBDA buf :
         Let(IF IsDoubleDot(buf)
             THEN (IF i = Len(segs) THEN Append(ShortenPath(path, isFile), <<>>)
                   ELSE ShortenPath(path, isFile))
             ELSE IF IsSingleDot(buf)
             THEN (IF i = Len(segs) THEN Append(path, <<>>) ELSE path)
             ELSE IF isFile /\ path = <<>> /\ IsDriveLetter(buf)
             THEN Append(path, <<buf[1], 58>>)
             ELSE Append(path, buf), LAMBDA next :
           PathStateFrom(segs, i + 1, isFile, next)))

\* the raw segments of p: split at '/', and at '\' too in a special URL
SplitPath(p, special) == Split(p, IF special THEN {47, 92} ELSE {47})

PathState(p, special, isFile) ==
  Let(SplitPath(p, special), LAMBDA segs : PathStateFrom(segs, 1, isFile, <<>>))

IsSlash(c, special) == c = 47 \/ (special /\ c = 92)

\* the path start state on p (the text up to the query or fragment):
\* one leading separator is consumed
PathStart(str, special, isFile, override, hasHost) ==
  Let(str, LAMBDA p :
    IF special
    THEN PathState(IF p # <<>> /\ IsSlash(p[1], TRUE) THEN Tail(p) ELSE p, TRUE, isFile)
    ELSE IF p # <<>>
         THEN PathState(IF p[1] = 47 THEN Tail(p) ELSE p, FALSE, FALSE)
         ELSE IF override /\ ~hasHost THEN << <<>> >> ELSE <<>>)

\* forbidden host code points; a domain also forbids '%', C0 controls and DEL
IsForbiddenHostChar(c) ==
  c \in {0, 9, 10, 13, 32, 35, 47, 58, 60, 62, 63, 64, 91, 92, 93, 94, 124}

IsForbiddenDomainChar(c) == IsForbiddenHostChar(c) \/ c <= 31 \/ c = 37 \/ c = 127

\* host parsing; ok = FALSE is the parser's failure
ParseHost(str, special) ==
  Let(str, LAMBDA h :
    IF special
    THEN IF h = <<>> \/ \E i \in 1..Len(h) : IsForbiddenDomainChar(h[i])
         THEN [ok |-> FALSE, host |-> <<>>]
         ELSE [ok |-> TRUE, host |-> LowerCase(h)]
    ELSE IF \E i \in 1..Len(h) : IsForbiddenHostChar(h[i])
         THEN [ok |-> FALSE, host |-> <<>>]
         ELSE [ok |-> TRUE, host |-> PctEncodeC0(h)])

FailedUrl ==
  [ok |-> FALSE, scheme |-> <<>>, hasHost |-> FALSE, host |-> <<>>, opaque |-> FALSE,
   opaquePath |-> <<>>, path |-> <<>>, hasQuery |-> FALSE, query |-> <<>>,
   hasFragment |-> FALSE, fragment |-> <<>>]

\* text before the first character of S / text from that character on
Before(s, S) == Let(FirstIn(s, S), LAMBDA k : IF k = 0 THEN s ELSE SubSeq(s, 1, k - 1))
From(s, S) == Let(FirstIn(s, S), LAMBDA k : IF k = 0 THEN <<>> ELSE DropN(s, k - 1))

\* the text after the scheme, cut into what precedes the query and fragment
\* (hier), the query and the fragment
SplitAfterScheme(rest) ==
  Let([hier |-> Before(rest, {63, 35}), tail |-> From(rest, {63, 35})], LAMBDA a :
    LET hasQuery == a.tail # <<>> /\ a.tail[1] = 63
    IN  Let(From(a.tail, {35}), LAMBDA fragPart :
          [hier |-> a.hier,
           hasQuery |-> hasQuery,
           query |-> IF hasQuery THEN Before(Tail(a.tail), {35}) ELSE <<>>,
           hasFragment |-> fragPart # <<>>,
           fragment |-> IF fragPart # <<>> THEN Tail(fragPart) ELSE <<>>]))

\* the URL record once the scheme, the parts p of SplitAfterScheme and the
\* host and path are known
FinishUrl(scheme, p, hasHost, host, opaque, opaquePath, path) ==
  [ok |-> TRUE, scheme |-> scheme, hasHost |-> hasHost, host |-> host,
   opaque |-> opaque, opaquePath |-> opaquePath, path |-> path,
   hasQuery |-> p.hasQuery,
   query |-> PctEncodeQuery(p.query, scheme \in SpecialSchemes),
   hasFragment |-> p.hasFragment, fragment |-> PctEncodeFragment(p.fragment)]

\* authority state on a (the text after the two separators)
AuthorityState(scheme, p, a) ==
  LET special == scheme \in SpecialSchemes
      seps == IF special THEN {47, 92} ELSE {47}
  IN  Let(ParseHost(Before(a, seps), special), LAMBDA h :
        IF ~h.ok THEN FailedUrl
        ELSE FinishUrl(scheme, p, TRUE, h.host, FALSE, <<>>,
                       PathStart(From(a, seps), special, FALSE, FALSE, TRUE)))

\* special authority ignore slashes state: every leading separator goes
RECURSIVE SkipSlashes(_, _)
SkipSlashes(a, i) ==
  IF i <= Len(a) /\ IsSlash(a[i], TRUE) THEN SkipSlashes(a, i + 1) ELSE DropN(a, i - 1)

\* file host state on a (the text after "file://")
FileHostState(scheme, p, a) ==
  Let([raw |-> Before(a, {47, 92}), after |-> From(a, {47, 92})], LAMBDA f :
    IF IsDriveLetter(f.raw)
    THEN FinishUrl(scheme, p, TRUE, <<>>, FALSE, <<>>, PathState(a, TRUE, TRUE))
    ELSE IF f.raw = <<>>
    THEN FinishUrl(scheme, p, TRUE, <<>>, FALSE, <<>>,
                   PathStart(f.after, TRUE, TRUE, FALSE, TRUE))
    ELSE Let(ParseHost(f.raw, TRUE), LAMBDA h :
           IF ~h.ok THEN FailedUrl
           ELSE FinishUrl(scheme, p, TRUE,
                          \* "localhost"
                          IF h.host = <<108, 111, 99, 97, 108, 104, 111, 115, 116>>
                          THEN <<>> ELSE h.host,
                          FALSE, <<>>, PathStart(f.after, TRUE, TRUE, FALSE, TRUE))))

\* the states after the scheme: scheme is the lower-cased scheme and p the
\* parts of SplitAfterScheme
ParseAfterScheme(scheme, p) ==
  LET special == scheme \in SpecialSchemes
      hier == p.hier
      \* the number of leading separators of hier, up to two
      nSlash == IF hier = <<>> \/ ~IsSlash(hier[1], special) THEN 0
                ELSE IF Len(hier) = 1 \/ ~IsSlash(hier[2], special) THEN 1
                ELSE 2
  IN  IF scheme = FileScheme
      THEN IF nSlash = 2 THEN Let(DropN(hier, 2), LAMBDA a : FileHostState(scheme, p, a))
           ELSE FinishUrl(scheme, p, TRUE, <<>>, FALSE, <<>>,
                          PathState(DropN(hier, nSlash), TRUE, TRUE))
      ELSE IF special
      THEN Let(SkipSlashes(hier, 1), LAMBDA a : AuthorityState(scheme, p, a))
      ELSE IF nSlash = 2
      THEN Let(DropN(hier, 2), LAMBDA a : AuthorityState(scheme, p, a))
      ELSE IF nSlash = 1
      THEN FinishUrl(scheme, p, FALSE, <<>>, FALSE, <<>>, PathState(Tail(hier), FALSE, FALSE))
      ELSE FinishUrl(scheme, p, FALSE, <<>>, TRUE, PctEncodeC0(hier), <<>>)

\* new URL(input), no base; ok = FALSE stands for the TypeError it throws
ParseURL(input) ==
  Let(CleanUrlInput(input), LAMBDA s :
    Let(SchemeEnd(s), LAMBDA k :
      IF k = 0 THEN FailedUrl
      ELSE Let(LowerCase(SubSeq(s, 1, k - 1)), LAMBDA scheme :
             Let(SplitAfterScheme(DropN(s, k)), LAMBDA p :
               ParseAfterScheme(scheme, p)))))

\* the pathname getter
Pathname(u) ==
  IF u.opaque THEN u.opaquePath
  ELSE Flatten([i \in 1..Len(u.path) |-> <<47>> \o u.path[i]])

\* the pathname setter: nothing on an opaque path; otherwise the value is
\* parsed from the path start state, where '?' and '#' are path characters
SetPathname(u, value) ==
  IF u.opaque THEN u
  ELSE Let(PathStart(SelectSeq(value, LAMBDA c : c \notin {9, 10, 13}),
                     u.scheme \in SpecialSchemes, u.scheme = FileScheme, TRUE, u.hasHost),
           LAMBDA path : [u EXCEPT !.path = path])

\* the href of the URL (toString)
SerializeUrl(u) ==
  u.scheme \o <<58>>
    \o (IF u.hasHost THEN <<47, 47>> \o u.host
        ELSE IF ~u.opaque /\ Len(u.path) > 1 /\ u.path[1] = <<>> THEN <<47, 46>>
        ELSE <<>>)
    \o Pathname(u)
    \o (IF u.hasQuery THEN <<63>> \o u.query ELSE <<>>)
    \o (IF u.hasFragment THEN <<35>> \o u.fragment ELSE <<>>)

(***************************************************************************)
(* path.posix.normalize and path.win32.normalize (Node.js path module).    *)
(***************************************************************************)
\* normalizeString over the segments segs[i..]: '.' and empty segments go,
\* '..' drops the segment before it, or stays when there is none to drop and
\* the path is relative; res holds the segments kept so far
RECURSIVE NormalizeSegs(_, _, _, _)
NormalizeSegs(segs, i, allowAboveRoot, res) ==
  IF i > Len(segs) THEN res
  ELSE Let(IF segs[i] = <<>> \/ segs[i] = <<46>> THEN res
           ELSE IF segs[i] = <<46, 46>>
           THEN IF res # <<>> /\ res[Len(res)] # <<46, 46>>
                THEN SubSeq(res, 1, Len(res) - 1)
                ELSE IF allowAboveRoot THEN Append(res, segs[i]) ELSE res
           ELSE Append(res, segs[i]), LAMBDA next :
         NormalizeSegs(segs, i + 1, allowAboveRoot, next))

\* the normalized text of the segments segs, joined by sep
NormalizeBody(segs, allowAboveRoot, sep) ==
  Let(segs, LAMBDA g : Join(NormalizeSegs(g, 1, allowAboveRoot, <<>>), sep))

posixNormalize(str) ==
  Let(str, LAMBDA p :
    IF p = <<>> THEN <<46>>
    ELSE LET isAbsolute == p[1] = 47
             trailing == p[Len(p)] = 47
         IN  Let(NormalizeBody(Split(p, {47}), ~isAbsolute, <<47>>), LAMBDA body :
               LET rel == IF body = <<>> /\ ~isAbsolute THEN <<46>> ELSE body
                   withTrail == IF rel # <<>> /\ trailing THEN rel \o <<47>> ELSE rel
               IN  IF isAbsolute THEN <<47>> \o withTrail ELSE withTrail))

\* the number of characters of s from position i on that are (sep) or are
\* not (~sep) path separators
RECURSIVE RunLen(_, _, _)
RunLen(s, i, sep) ==
  IF i <= Len(s) /\ ((s[i] \in {47, 92}) = sep) THEN 1 + RunLen(s, i + 1, sep) ELSE 0

\* the end of the UNC root of p (two separators, a server, separators, a
\* share) with the lengths of its parts; unc = FALSE when p has none
UncRoot(p) ==
  Let(RunLen(p, 3, FALSE), LAMBDA n1 :
    Let(RunLen(p, 3 + n1, TRUE), LAMBDA n2 :
      Let(RunLen(p, 3 + n1 + n2, FALSE), LAMBDA n3 :
        [unc |-> p[1] \in {47, 92} /\ p[2] \in {47, 92} /\ n1 > 0 /\ n2 > 0 /\ n3 > 0,
         n1 |-> n1, n2 |-> n2, n3 |-> n3])))

\* path.win32.normalize for a path without a drive-letter prefix (a path
\* with one is a URL for isUrl and never reaches path.normalize)
win32Normalize(str) ==
  Let(str, LAMBDA p :
    IF p = <<>> THEN <<46>>
    ELSE IF Len(p) = 1 THEN (IF p[1] = 47 THEN <<92>> ELSE p)
    ELSE Let(UncRoot(p), LAMBDA r :
      LET isAbsolute == p[1] \in {47, 92}
          device == <<92, 92>> \o SubSeq(p, 3, 2 + r.n1) \o <<92>>
                      \o SubSeq(p, 3 + r.n1 + r.n2, 2 + r.n1 + r.n2 + r.n3)
          rootEnd == IF r.unc THEN 2 + r.n1 + r.n2 + r.n3
                     ELSE IF isAbsolute /\ p[2] \notin {47, 92} THEN 1 ELSE 0
      IN  Let(IF rootEnd < Len(p)
              THEN NormalizeBody(Split(DropN(p, rootEnd), {47, 92}), ~isAbsolute, <<92>>)
              ELSE <<>>, LAMBDA body :
            LET rel == IF body = <<>> /\ ~isAbsolute THEN <<46>> ELSE body
                tail == IF rel # <<>> /\ p[Len(p)] \in {47, 92} THEN rel \o <<92>> ELSE rel
            IN  IF r.unc /\ rootEnd = Len(p) THEN device \o <<92>>
                ELSE IF r.unc THEN device \o <<92>> \o tail
                ELSE IF isAbsolute THEN <<92>> \o tail
                ELSE tail)))

\* path.normalize of the host platform
pathNormalize(p, plat) == IF plat = "win32" THEN win32Normalize(p) ELSE posixNormalize(p)

(***************************************************************************)
(* encodeUrlPathSegments, isUrl, resolvePath                               *)
(***************************************************************************)
\* the callback of .map() at lines 173-181 and 196-204
EncodeSegment(segment) ==
  IF segment = <<>> THEN segment ELSE encodeURIComponent(decodeHtmlEntities(segment))

\* pathname.split('/').map(...).join('/')
EncodeSegments(pathname) ==
  Let(Split(pathname, {47}), LAMBDA segs :
    Join([i \in 1..Len(segs) |-> EncodeSegment(segs[i])], <<47>>))

\* the number of characters of s from position i on that are not '/'
RECURSIVE RunLenNoSlash(_, _)
RunLenNoSlash(s, i) == IF i <= Len(s) /\ s[i] # 47 THEN 1 + RunLenNoSlash(s, i + 1) ELSE 0

\* the catch branch: url.match(/^([^/]+:\/\/[^/]+)(\/.*)?$/)
EncodeByPattern(str) ==
  Let(str, LAMBDA url :
    Let(FirstIn(url, {47}), LAMBDA k :
      Let(IF k = 0 THEN 0 ELSE RunLenNoSlash(url, k + 2), LAMBDA hostLen :
        LET matches == /\ k >= 3
                       /\ url[k - 1] = 58
                       /\ Len(url) > k /\ url[k + 1] = 47
                       /\ hostLen > 0
            urlPath == DropN(url, k + 1 + hostLen)
            oneLine == \A i \in 1..Len(urlPath) : urlPath[i] \notin {10, 13, 8232, 8233}
        IN  IF matches /\ oneLine /\ urlPath # <<>>
            THEN SubSeq(url, 1, k + 1 + hostLen) \o EncodeSegments(urlPath)
            ELSE url)))

encodeUrlPathSegments(url) ==
  Let(ParseURL(url), LAMBDA urlObj :
    IF urlObj.ok
    THEN Let(EncodeSegments(Pathname(urlObj)), LAMBDA pathname :
           Let(SetPathname(urlObj, pathname), LAMBDA u2 : SerializeUrl(u2)))
    ELSE EncodeByPattern(url))

\* /^[a-zA-Z][a-zA-Z\d+\-.]*:/.test(path)
isUrl(path) == SchemeEnd(path) > 0

\* options.f is a non-empty string (the truthiness test of a string field)
Truthy(options, f) == f \in DOMAIN options /\ options[f] # <<>>

\* options.f is true (the truthiness test of a boolean field)
IsSet(options, f) == f \in DOMAIN options /\ options[f] = TRUE

\* s.replace(/\/+/g, '/'): a '/' that follows a '/' goes
CollapseSlashes(str) ==
  Let(str, LAMBDA s :
    Let(SelectSeq([i \in 1..Len(s) |-> i],
                  LAMBDA i : ~(s[i] = 47 /\ i > 1 /\ s[i - 1] = 47)), LAMBDA keep :
      [j \in 1..Len(keep) |-> s[keep[j]]]))

\* s.replace(/\/$/, '')
StripTrailingSlash(s) ==
  IF s # <<>> /\ s[Len(s)] = 47 THEN SubSeq(s, 1, Len(s) - 1) ELSE s

\* s.replace(/^\.\//, '').replace(/^\//, '')
StripLeadingDotSlash(s) ==
  LET a == IF StartsWith(s, <<46, 47>>) THEN DropN(s, 2) ELSE s
  IN  IF StartsWith(a, <<47>>) THEN Tail(a) ELSE a

\* the three raw paths that denote the root: './' '.' '/'
RootPaths == { <<46, 47>>, <<46>>, <<47>> }

\* a plausible slip: the root paths take the general route
resolvePathNoRootCheck(pathStr, options, plat) ==
  IF pathStr = <<>> THEN pathStr
  ELSE IF Truthy(options, "repositoryUrl")
  THEN Let(CollapseSlashes(StripTrailingSlash(options.repositoryUrl) \o <<47>>
                             \o posixNormalize(StripLeadingDotSlash(pathStr))),
           LAMBDA fullUrl : encodeUrlPathSegments(fullUrl))
  ELSE IF isUrl(pathStr) THEN encodeUrlPathSegments(pathStr)
  ELSE pathNormalize(pathStr, plat)

resolvePath(pathStr, options, plat) ==
  IF pathStr = <<>> THEN pathStr
  ELSE IF Truthy(options, "repositoryUrl")
  THEN LET baseUrl == StripTrailingSlash(options.repositoryUrl)
           relativePath == posixNormalize(StripLeadingDotSlash(pathStr))
       IN  IF pathStr \in RootPaths THEN baseUrl
           ELSE Let(CollapseSlashes(baseUrl \o <<47>> \o relativePath),
                    LAMBDA fullUrl : encodeUrlPathSegments(fullUrl))
  ELSE IF isUrl(pathStr) THEN encodeUrlPathSegments(pathStr)
  ELSE pathNormalize(pathStr, plat)

(***************************************************************************)
(* Options, mergeOptions, setDefaultOptions and buildSvnArgs.  An options  *)
(* record is a function from the names of the fields it carries to their   *)
(* values.                                                                 *)
(***************************************************************************)
NoOptions == [f \in {} |-> TRUE]

\* { ...a, ...b }
Spread(a, b) ==
  [f \in (DOMAIN a) \cup (DOMAIN b) |-> IF f \in DOMAIN b THEN b[f] ELSE a[f]]

\* a plausible slip: the defaults are spread last and win
mergeOptionsDefaultsWin(defaults, options) == Spread(options, defaults)

mergeOptions(defaults, options) == Spread(defaults, options)

addCommonFlags(options) ==
  (IF "nonInteractive" \in DOMAIN options /\ options.nonInteractive = FALSE
   THEN <<>> ELSE << <<45, 45, 110, 111, 110, 45, 105, 110, 116, 101, 114, 97, 99, 116, 105, 118, 101>> >>)
  \o (IF IsSet(options, "trustServerCert") THEN << <<45, 45, 116, 114, 117, 115, 116, 45, 115, 101, 114, 118, 101, 114, 45, 99, 101, 114, 116>> >> ELSE <<>>)
  \o (IF IsSet(options, "noAuthCache") THEN << <<45, 45, 110, 111, 45, 97, 117, 116, 104, 45, 99, 97, 99, 104, 101>> >> ELSE <<>>)

\* a plausible slip: the password is pushed before the username
addAuthFlagsPasswordFirst(options) ==
  (IF Truthy(options, "password") THEN << <<45, 45, 112, 97, 115, 115, 119, 111, 114, 100>>, options.password >> ELSE <<>>)
  \o (IF Truthy(options, "username") THEN << <<45, 45, 117, 115, 101, 114, 110, 97, 109, 101>>, options.username >> ELSE <<>>)

addAuthFlags(options) ==
  (IF Truthy(options, "username") THEN << <<45, 45, 117, 115, 101, 114, 110, 97, 109, 101>>, options.username >> ELSE <<>>)
  \o (IF Truthy(options, "password") THEN << <<45, 45, 112, 97, 115, 115, 119, 111, 114, 100>>, options.password >> ELSE <<>>)

\* /^\d+$/.test(arg)
IsNumeric(arg) == arg # <<>> /\ \A i \in 1..Len(arg) : IsDigit(arg[i])

\* a plausible slip: the test for a purely numeric token is left out
resolvePathArgNumericToo(arg, options, plat) ==
  IF arg # <<>> /\ ~StartsWith(arg, <<45, 45>>)
  THEN Let(resolvePath(arg, options, plat), LAMBDA r : IF r # <<>> THEN r ELSE arg)
  ELSE arg

\* the callback of .map() at lines 349-355
resolvePathArg(arg, options, plat) ==
  IF arg # <<>> /\ ~StartsWith(arg, <<45, 45>>) /\ ~IsNumeric(arg)
  THEN Let(resolvePath(arg, options, plat), LAMBDA r : IF r # <<>> THEN r ELSE arg)
  ELSE arg

resolvePathArgs(args, options, plat) ==
  [i \in 1..Len(args) |-> resolvePathArg(args[i], options, plat)]

\* the pair [command line, merged options] returned by buildSvnArgs
buildSvnArgs(command, args, options, defaults, plat) ==
  Let(mergeOptions(defaults, options), LAMBDA mergedOptions :
    Let(resolvePathArgs(args, mergedOptions, plat), LAMBDA resolvedArgs :
      LET escapedArgs == [i \in 1..Len(resolvedArgs) |-> escapeShellArg(resolvedArgs[i], plat)]
          svnArgs == <<command>> \o addCommonFlags(mergedOptions)
                       \o addAuthFlags(mergedOptions) \o escapedArgs
      IN  [command |-> <<115, 118, 110, 32>> \o Join(svnArgs, <<32>>),
           options |-> mergedOptions]))

(***************************************************************************)
(* Specification SpecEscape: escapeShellArg applied to every bounded token *)
(* on both platforms.                                                      *)
(***************************************************************************)
\* 'a' '-' '%' ' ' "'" '"' '\' and e-acute
EscapeAlphabet == {97, 45, 37, 32, 39, 34, 92, 233}

EscapeInputs == SeqsUpTo(EscapeAlphabet, MaxArgLen)

InitEscape ==
  /\ platform \in Platforms
  /\ defaultOptions = NoOptions
  /\ pc = "start"
  /\ call \in {[op |-> "escapeShellArg", arg |-> a] : a \in EscapeInputs}
  /\ ret = <<>>
  /\ prev = <<>>
  /\ processEnv = NoOptions
  /\ children = <<>>

CallEscapeShellArg ==
  /\ pc = "start"
  /\ call.op = "escapeShellArg"
  /\ pc' = "escaped"
  /\ ret' = escapeShellArg(call.arg, platform)
  /\ UNCHANGED <<platform, defaultOptions, call, prev, processEnv, children>>

NextEscape == CallEscapeShellArg

SpecEscape == InitEscape /\ [][NextEscape]_vars

(***************************************************************************)
(* Specification SpecResolve: resolvePath applied to every bounded raw     *)
(* path under every options record of the model, and applied once more to  *)
(* its own result.                                                         *)
(***************************************************************************)
\* a  /  .  ..  "a b"  a%20b  &amp;  ?  #  e-acute  %  https://h/r/a
PathParts ==
  { <<97>>, <<47>>, <<46>>, <<46, 46>>, <<97, 32, 98>>, <<97, 37, 50, 48, 98>>,
    <<38, 97, 109, 112, 59>>, <<63>>, <<35>>, <<233>>, <<37>>,
    <<104, 116, 116, 112, 115, 58, 47, 47, 104, 47, 114, 47, 97>> }

\* Windows drive-letter paths:  C:\a\..\b  D:\a\.\b
DrivePaths ==
  { <<67, 58, 92, 97, 92, 46, 46, 92, 98>>, <<68, 58, 92, 97, 92, 46, 92, 98>> }

PathInputs == {Flatten(ps) : ps \in SeqsUpTo(PathParts, MaxPathParts)} \cup DrivePaths

\* https://h/r  https://h/r/  svn://h/r  svn+ssh://h/r  file:///r
BaseUrls ==
  { <<104, 116, 116, 112, 115, 58, 47, 47, 104, 47, 114>>,
    <<104, 116, 116, 112, 115, 58, 47, 47, 104, 47, 114, 47>>,
    <<115, 118, 110, 58, 47, 47, 104, 47, 114>>,
    <<115, 118, 110, 43, 115, 115, 104, 58, 47, 47, 104, 47, 114>>,
    <<102, 105, 108, 101, 58, 47, 47, 47, 114>> }

ResolveOptions == {NoOptions} \cup {[repositoryUrl |-> b] : b \in BaseUrls}

InitResolve ==
  /\ platform \in Platforms
  /\ defaultOptions = NoOptions
  /\ pc = "start"
  /\ call \in {[op |-> "resolvePath", path |-> p, options |-> o] :
                 p \in PathInputs, o \in ResolveOptions}
  /\ ret = <<>>
  /\ prev = <<>>
  /\ processEnv = NoOptions
  /\ children = <<>>

CallResolvePath ==
  /\ pc = "start"
  /\ call.op = "resolvePath"
  /\ pc' = "resolved"
  /\ ret' = resolvePath(call.path, call.options, platform)
  /\ UNCHANGED <<platform, defaultOptions, call, prev, processEnv, children>>

\* the caller hands the resolved path back to resolvePath, same options
CallResolveAgain ==
  /\ pc = "resolved"
  /\ pc' = "reresolved"
  /\ prev' = ret
  /\ ret' = resolvePath(ret, call.options, platform)
  /\ UNCHANGED <<platform, defaultOptions, call, processEnv, children>>

NextResolve == CallResolvePath \/ CallResolveAgain

SpecResolve == InitResolve /\ [][NextResolve]_vars

(***************************************************************************)
(* Specification Spec: a service object, its default options set by        *)
(* setDefaultOptions, and buildSvnArgs called with bounded arguments.      *)
(***************************************************************************)
\* /a/b.c  ./a/b.c  a.c  "a b"  12  --revision  HEAD  and the empty string
ArgTokens ==
  { <<47, 97, 47, 98, 46, 99>>, <<46, 47, 97, 47, 98, 46, 99>>, <<97, 46, 99>>,
    <<97, 32, 98>>, <<49, 50>>,
    <<45, 45, 114, 101, 118, 105, 115, 105, 111, 110>>, <<72, 69, 65, 68>>, <<>> }

ArgLists == SeqsUpTo(ArgTokens, MaxArgs)

\* info
Subcommands == { <<105, 110, 102, 111>> }

\* the records handed to setDefaultOptions
ModuleOptionChoices ==
  { [username |-> <<117>>],
    [repositoryUrl |-> <<104, 116, 116, 112, 115, 58, 47, 47, 104, 47, 114>>],
    [nonInteractive |-> FALSE, trustServerCert |-> TRUE] }

\* the per-call options records
CallOptionChoices ==
  { NoOptions,
    [username |-> <<118>>, password |-> <<112, 32, 119>>],
    [repositoryUrl |-> <<115, 118, 110, 58, 47, 47, 104, 47, 114>>, noAuthCache |-> TRUE],
    [nonInteractive |-> TRUE, noAuthCache |-> TRUE, password |-> <<112>>] }

Init ==
  /\ platform \in Platforms
  /\ defaultOptions = NoOptions
  /\ pc = "idle"
  /\ call = [op |-> "none"]
  /\ ret = <<>>
  /\ prev = <<>>
  /\ processEnv = NoOptions
  /\ children = <<>>

SetDefaultOptions ==
  \E o \in ModuleOptionChoices :
    /\ pc = "idle"
    /\ pc' = "configured"
    /\ defaultOptions' = Spread(defaultOptions, o)
    /\ call' = [op |-> "setDefaultOptions", options |-> o]
    /\ UNCHANGED <<platform, ret, prev, processEnv, children>>

CallBuildSvnArgs ==
  \E c \in Subcommands, as \in ArgLists, o \in CallOptionChoices :
    /\ pc = "idle"
    /\ pc' = "built"
    /\ call' = [op |-> "buildSvnArgs", command |-> c, args |-> as, options |-> o]
    /\ ret' = buildSvnArgs(c, as, o, defaultOptions, platform)
    /\ UNCHANGED <<platform, defaultOptions, prev, processEnv, children>>

\* the caller takes what the call returned (the pair of buildSvnArgs, nothing
\* for setDefaultOptions); the service is idle again
ReturnToCaller ==
  /\ pc \in {"built", "configured"}
  /\ pc' = "idle"
  /\ call' = [op |-> "none"]
  /\ ret' = <<>>
  /\ UNCHANGED <<platform, defaultOptions, prev, processEnv, children>>

Next == SetDefaultOptions \/ CallBuildSvnArgs \/ ReturnToCaller

Spec == Init /\ [][Next]_vars

(***************************************************************************)
(* Command execution: executeCommand (lines 53-78), buildEnvironment       *)
(* (83-112), handleCommandError (117-134), and the read operations cat and *)
(* diff that hand the captured stdout to their caller.                     *)
(*                                                                         *)
(* The captured stdout is a record [text, more]: the characters of text    *)
(* followed by more characters that are not white space, so that output    *)
(* of the size of MAX_BUFFER is represented without listing it.            *)
(***************************************************************************)
\* COMMAND_CONSTANTS.MAX_BUFFER
MAX_BUFFER == 10 * 1024 * 1024

\* COMMAND_CONSTANTS.LOCALE_EN: 'C'
LOCALE_EN == <<67>>

\* the empty output
EmptyOut == [text |-> <<>>, more |-> 0]

\* the length of an output, in characters
OutLength(o) == Len(o.text) + o.more

\* the first n characters of an output
Truncate(o, n) ==
  IF OutLength(o) <= n THEN o
  ELSE IF Len(o.text) >= n THEN [text |-> SubSeq(o.text, 1, n), more |-> 0]
  ELSE [text |-> o.text, more |-> n - Len(o.text)]

\* white space of String.prototype.trim: tab, LF, VT, FF, CR, space, NBSP
IsWhiteSpace(c) == c \in {9, 10, 11, 12, 13, 32, 160}

\* the index of the first character of s, from i on, that is not white space
RECURSIVE FirstNonSpace(_, _)
FirstNonSpace(s, i) ==
  IF i > Len(s) \/ ~IsWhiteSpace(s[i]) THEN i ELSE FirstNonSpace(s, i + 1)

\* the index of the last character of s, up to i, that is not white space
RECURSIVE LastNonSpace(_, _)
LastNonSpace(s, i) ==
  IF i < 1 \/ ~IsWhiteSpace(s[i]) THEN i ELSE LastNonSpace(s, i - 1)

TrimStart(s) == SubSeq(s, FirstNonSpace(s, 1), Len(s))

\* String.prototype.trim
Trim(s) == SubSeq(s, FirstNonSpace(s, 1), LastNonSpace(s, Len(s)))

\* String.prototype.trim on an output
TrimOut(o) ==
  IF o.more = 0 THEN [text |-> Trim(o.text), more |-> 0]
  ELSE [text |-> TrimStart(o.text), more |-> o.more]

\* the values of the code property of an error: a number, a string, null
Num(n) == [type |-> "number", value |-> n]

Str(s) == [type |-> "string", value |-> s]

Null == [type |-> "null"]

\* a plausible slip: LC_MESSAGES is set on every platform
buildEnvironmentLcMessagesEverywhere(options, penv, plat) ==
  Let(Spread(penv, [LC_MESSAGES |-> LOCALE_EN, LC_ALL |-> LOCALE_EN, LANG |-> LOCALE_EN]),
      LAMBDA env :
        Spread(Spread(env, IF Truthy(options, "username")
                           THEN [SVN_USERNAME |-> options.username] ELSE NoOptions),
               IF Truthy(options, "password")
               THEN [SVN_PASSWORD |-> options.password] ELSE NoOptions))

\* buildEnvironment: a copy of process.env with the locale and credential
\* variables assigned
buildEnvironment(options, penv, plat) ==
  Let(Spread(penv, IF plat = "win32"
                   THEN [LC_MESSAGES |-> LOCALE_EN, LC_ALL |-> LOCALE_EN, LANG |-> LOCALE_EN]
                   ELSE [LANG |-> LOCALE_EN, LC_ALL |-> LOCALE_EN]),
      LAMBDA env :
        Spread(Spread(env, IF Truthy(options, "username")
                           THEN [SVN_USERNAME |-> options.username] ELSE NoOptions),
               IF Truthy(options, "password")
               THEN [SVN_PASSWORD |-> options.password] ELSE NoOptions))

\* handleCommandError: the result made of a caught error
handleCommandError(error) ==
  IF {"stdout", "stderr", "code"} \subseteq DOMAIN error
  THEN [success |-> FALSE,
        stdout |-> TrimOut(error.stdout),
        stderr |-> Let(Trim(error.stderr), LAMBDA t :
                     IF t # <<>> THEN t
                     ELSE IF "message" \in DOMAIN error THEN error.message ELSE <<>>),
        code |-> error.code]
  ELSE [success |-> FALSE, stdout |-> EmptyOut, stderr |-> error.message]

\* the error process.cwd() throws when the working directory is gone:
\* 'ENOENT: no such file or directory, uv_cwd'
CwdError ==
  [code |-> Str("ENOENT"),
   message |-> <<69, 78, 79, 69, 78, 84, 58, 32, 110, 111, 32, 115, 117, 99, 104, 32, 102, 105, 108, 101, 32, 111, 114, 32, 100, 105, 114, 101, 99, 116, 111, 114, 121, 44, 32, 117, 118, 95, 99, 119, 100>>]

\* the shell exec() starts on each platform
ShellFile(plat) == IF plat = "win32" THEN <<99, 109, 100, 46, 101, 120, 101>> ELSE <<47, 98, 105, 110, 47, 115, 104>>

\* what the shell does when there is no svn binary: its exit status and the
\* text it writes to stderr ('sh: svn: not found' / 'svn is not recognized')
NoBinaryStatus(plat) == IF plat = "win32" THEN 1 ELSE 127

NoBinaryText(plat) ==
  IF plat = "win32" THEN <<39, 115, 118, 110, 39, 32, 105, 115, 32, 110, 111, 116, 32, 114, 101, 99, 111, 103, 110, 105, 122, 101, 100, 13, 10>> ELSE <<115, 104, 58, 32, 115, 118, 110, 58, 32, 110, 111, 116, 32, 102, 111, 117, 110, 100, 10>>

\* the error exec() makes of a shell that ended abnormally:
\* 'Command failed: <command>\n<stderr>'
ExitError(command, code, out, err) ==
  [code |-> code,
   message |-> <<67, 111, 109, 109, 97, 110, 100, 32, 102, 97, 105, 108, 101, 100, 58, 32>> \o command \o <<10>> \o err,
   stdout |-> out,
   stderr |-> err]

\* what the subprocess of one launch can do
\*   exit:       the command ran and ended with a status
\*   signal:     the command was ended by a signal
\*   noBinary:   the shell found no svn binary
\*   spawnError: the shell itself could not be started
\* outputs:  ''   ' r1\n'   'ab' and MAX_BUFFER - 2 more   ' x' and MAX_BUFFER more
Outputs ==
  { EmptyOut,
    [text |-> <<32, 114, 49, 10>>, more |-> 0],
    [text |-> <<97, 98>>, more |-> MAX_BUFFER - 2],
    [text |-> <<32, 120>>, more |-> MAX_BUFFER] }

\* texts on stderr:  ''   'E1\n'
ErrTexts == { <<>>, <<69, 49, 10>> }

ChildBehaviours ==
  { [kind |-> "exit", status |-> s, out |-> o, err |-> e] :
      s \in {0, 1}, o \in Outputs, e \in ErrTexts }
  \cup { [kind |-> "signal", out |-> o, err |-> <<>>] : o \in {EmptyOut} }
  \cup { [kind |-> "noBinary"], [kind |-> "spawnError"] }

Rejected(error) == [resolved |-> FALSE, error |-> error]

\* the promise of execAsync(command, {cwd, env, maxBuffer}) for a subprocess
\* that behaves as b: resolved with {stdout, stderr}, or rejected with an
\* error that carries code, stdout and stderr
execAsync(command, b, maxBuffer, plat) ==
  IF b.kind = "spawnError"
  THEN Rejected([code |-> Str("EAGAIN"),
                 message |-> <<115, 112, 97, 119, 110, 32>> \o ShellFile(plat) \o <<32, 69, 65, 71, 65, 73, 78>>,
                 stdout |-> EmptyOut,
                 stderr |-> <<>>])
  ELSE IF b.kind = "noBinary"
  THEN Rejected(ExitError(command, Num(NoBinaryStatus(plat)), EmptyOut, NoBinaryText(plat)))
  ELSE IF OutLength(b.out) > maxBuffer
  THEN Rejected([code |-> Str("ERR_CHILD_PROCESS_STDIO_MAXBUFFER"),
                 message |-> <<115, 116, 100, 111, 117, 116, 32, 109, 97, 120, 66, 117, 102, 102, 101, 114, 32, 108, 101, 110, 103, 116, 104, 32, 101, 120, 99, 101, 101, 100, 101, 100>>,
                 stdout |-> Truncate(b.out, maxBuffer),
                 stderr |-> b.err])
  ELSE IF b.kind = "signal"
  THEN Rejected(ExitError(command, Null, b.out, b.err))
  ELSE IF b.status # 0
  THEN Rejected(ExitError(command, Num(b.status), b.out, b.err))
  ELSE [resolved |-> TRUE, stdout |-> b.out, stderr |-> b.err]

(***************************************************************************)
(* Regular expressions of the output parsers: String.prototype.match and   *)
(* matchAll for patterns made of literals and quantified character         *)
(* classes, with the backtracking order of the runtime (a greedy           *)
(* quantifier tries the longest run first, a lazy one the shortest).       *)
(***************************************************************************)
\* a literal piece of a pattern
Lit(s) == [t |-> "lit", s |-> s]

\* a quantified class: cls* , cls+ (min = 1), lazy when ~greedy, enclosed
\* in a capturing group when cap
Rep(cls, min, greedy, cap) ==
  [t |-> "rep", cls |-> cls, min |-> min, greedy |-> greedy, cap |-> cap]

\* [\s\S]   .   [^>]   [^"]   \d
InClass(c, cls) ==
  CASE cls = "any" -> TRUE
    [] cls = "dot" -> c \notin {10, 13, 8232, 8233}
    [] cls = "notgt" -> c # 62
    [] cls = "notquote" -> c # 34
    [] cls = "digit" -> IsDigit(c)

\* how many characters of s, from position pos on, are of the class
ClassRun(s, pos, cls) ==
  Let({j \in pos..Len(s) : ~InClass(s[j], cls)}, LAMBDA others :
    IF others = {} THEN Len(s) - pos + 1
    ELSE (CHOOSE j \in others : \A h \in others : j <= h) - pos)

\* the literal lit stands in s at position pos
LitAt(s, pos, lit) ==
  pos + Len(lit) - 1 <= Len(s) /\ \A j \in 1..Len(lit) : s[pos + j - 1] = lit[j]

NoMatch == [ok |-> FALSE]

\* the lengths a quantified item pat[k] can take at position pos, in the
\* order they are tried (longest first when greedy, shortest first when
\* lazy); a length after which the next literal does not stand is left out
RepLengths(s, pat, k, pos, max) ==
  SelectSeq([j \in 1..(max - pat[k].min + 1) |->
               IF pat[k].greedy THEN max - j + 1 ELSE pat[k].min + j - 1],
            LAMBDA n : \/ k = Len(pat)
                       \/ pat[k + 1].t # "lit"
                       \/ LitAt(s, pos + n, pat[k + 1].s))

\* the items pat[k..] matched against s from position pos: the end of the
\* match and the captured texts, or NoMatch
RECURSIVE MatchFrom(_, _, _, _)
RECURSIVE TryRep(_, _, _, _, _, _)
MatchFrom(s, pat, k, pos) ==
  IF k > Len(pat) THEN [ok |-> TRUE, end |-> pos, caps |-> <<>>]
  ELSE IF pat[k].t = "lit"
  THEN IF LitAt(s, pos, pat[k].s) THEN MatchFrom(s, pat, k + 1, pos + Len(pat[k].s))
       ELSE NoMatch
  ELSE Let(ClassRun(s, pos, pat[k].cls), LAMBDA max :
         IF max < pat[k].min THEN NoMatch
         ELSE Let(RepLengths(s, pat, k, pos, max), LAMBDA lengths :
                TryRep(s, pat, k, pos, lengths, 1)))

\* the quantified item pat[k] taking lengths[j] characters, then the next
\* length, until the rest of the pattern matches
TryRep(s, pat, k, pos, lengths, j) ==
  IF j > Len(lengths) THEN NoMatch
  ELSE Let(MatchFrom(s, pat, k + 1, pos + lengths[j]), LAMBDA r :
         IF r.ok
         THEN [ok |-> TRUE, end |-> r.end,
               caps |-> (IF pat[k].cap THEN <<SubSeq(s, pos, pos + lengths[j] - 1)>>
                         ELSE <<>>) \o r.caps]
         ELSE TryRep(s, pat, k, pos, lengths, j + 1))

\* the first of the positions starts[j..] at which pat matches, with the
\* index of the match
RECURSIVE SearchAmong(_, _, _, _)
SearchAmong(s, pat, starts, j) ==
  IF j > Len(starts) THEN NoMatch
  ELSE Let(MatchFrom(s, pat, 1, starts[j]), LAMBDA r :
         IF r.ok THEN r ELSE SearchAmong(s, pat, starts, j + 1))

\* the leftmost match of pat in s at or after position i (every pattern of
\* the parsers begins with a literal)
SearchFrom(s, pat, i) ==
  Let(SelectSeq([j \in 1..(Len(s) - i + 1) |-> i + j - 1],
                LAMBDA p : LitAt(s, p, pat[1].s)), LAMBDA starts :
    SearchAmong(s, pat, starts, 1))

\* str.match(pat)
Match(str, pat) == Let(str, LAMBDA s : SearchFrom(s, pat, 1))

\* str.matchAll(pat) for a pattern with the g flag: the matches, each one
\* searched from the end of the one before
RECURSIVE MatchAllFrom(_, _, _)
MatchAllFrom(s, pat, i) ==
  Let(SearchFrom(s, pat, i), LAMBDA r :
    IF r.ok THEN <<r>> \o MatchAllFrom(s, pat, r.end) ELSE <<>>)

MatchAll(str, pat) == Let(str, LAMBDA s : MatchAllFrom(s, pat, 1))

\* /<tag[^>]*>([\s\S]*)<\/tag>/ : the root element of a document
RootPattern(tag) ==
  << Lit(<<60>> \o tag), Rep("notgt", 0, TRUE, FALSE), Lit(<<62>>),
     Rep("any", 0, TRUE, TRUE), Lit(<<60, 47>> \o tag \o <<62>>) >>

\* /<tag>(.*?)<\/tag>/ : an element with text content on one line
TextPattern(tag) ==
  << Lit(<<60>> \o tag \o <<62>>), Rep("dot", 0, FALSE, TRUE), Lit(<<60, 47>> \o tag \o <<62>>) >>

\* /<entry[^>]*path="([^"]*)"[^>]*>([\s\S]*?)<\/entry>/g
StatusEntryPattern ==
  << Lit(<<60, 101, 110, 116, 114, 121>>), Rep("notgt", 0, TRUE, FALSE), Lit(<<112, 97, 116, 104, 61, 34>>),
     Rep("notquote", 0, TRUE, TRUE), Lit(<<34>>), Rep("notgt", 0, TRUE, FALSE), Lit(<<62>>),
     Rep("any", 0, FALSE, TRUE), Lit(<<60, 47, 101, 110, 116, 114, 121, 62>>) >>

\* /<wc-status[^>]*item="([^"]*)"[^>]*revision="([^"]*)"[^>]*>([\s\S]*?)<\/wc-status>/
WcStatusPattern ==
  << Lit(<<60, 119, 99, 45, 115, 116, 97, 116, 117, 115>>), Rep("notgt", 0, TRUE, FALSE), Lit(<<105, 116, 101, 109, 61, 34>>),
     Rep("notquote", 0, TRUE, TRUE), Lit(<<34>>), Rep("notgt", 0, TRUE, FALSE),
     Lit(<<114, 101, 118, 105, 115, 105, 111, 110, 61, 34>>), Rep("notquote", 0, TRUE, TRUE), Lit(<<34>>),
     Rep("notgt", 0, TRUE, FALSE), Lit(<<62>>),
     Rep("any", 0, FALSE, TRUE), Lit(<<60, 47, 119, 99, 45, 115, 116, 97, 116, 117, 115, 62>>) >>

\* /<commit[^>]*revision="([^"]*)"[^>]*>([\s\S]*?)<\/commit>/
CommitPattern ==
  << Lit(<<60, 99, 111, 109, 109, 105, 116>>), Rep("notgt", 0, TRUE, FALSE), Lit(<<114, 101, 118, 105, 115, 105, 111, 110, 61, 34>>),
     Rep("notquote", 0, TRUE, TRUE), Lit(<<34>>), Rep("notgt", 0, TRUE, FALSE), Lit(<<62>>),
     Rep("any", 0, FALSE, TRUE), Lit(<<60, 47, 99, 111, 109, 109, 105, 116, 62>>) >>

\* /<repos-status[^>]*item="([^"]*)"[^>]*>([\s\S]*?)<\/repos-status>/
ReposStatusPattern ==
  << Lit(<<60, 114, 101, 112, 111, 115, 45, 115, 116, 97, 116, 117, 115>>), Rep("notgt", 0, TRUE, FALSE), Lit(<<105, 116, 101, 109, 61, 34>>),
     Rep("notquote", 0, TRUE, TRUE), Lit(<<34>>), Rep("notgt", 0, TRUE, FALSE), Lit(<<62>>),
     Rep("any", 0, FALSE, TRUE), Lit(<<60, 47, 114, 101, 112, 111, 115, 45, 115, 116, 97, 116, 117, 115, 62>>) >>

\* /<logentry[^>]*revision="(\d+)"[^>]*>([\s\S]*?)<\/logentry>/g
LogEntryPattern ==
  << Lit(<<60, 108, 111, 103, 101, 110, 116, 114, 121>>), Rep("notgt", 0, TRUE, FALSE), Lit(<<114, 101, 118, 105, 115, 105, 111, 110, 61, 34>>),
     Rep("digit", 1, TRUE, TRUE), Lit(<<34>>), Rep("notgt", 0, TRUE, FALSE), Lit(<<62>>),
     Rep("any", 0, FALSE, TRUE), Lit(<<60, 47, 108, 111, 103, 101, 110, 116, 114, 121, 62>>) >>

\* /<paths>([\s\S]*?)<\/paths>/
PathsPattern ==
  << Lit(<<60, 112, 97, 116, 104, 115, 62>>), Rep("any", 0, FALSE, TRUE), Lit(<<60, 47, 112, 97, 116, 104, 115, 62>>) >>

\* /<path[^>]*action="([^"]*)"[^>]*kind="([^"]*)"[^>]*>(.*?)<\/path>/g
PathPattern ==
  << Lit(<<60, 112, 97, 116, 104>>), Rep("notgt", 0, TRUE, FALSE), Lit(<<97, 99, 116, 105, 111, 110, 61, 34>>),
     Rep("notquote", 0, TRUE, TRUE), Lit(<<34>>), Rep("notgt", 0, TRUE, FALSE),
     Lit(<<107, 105, 110, 100, 61, 34>>), Rep("notquote", 0, TRUE, TRUE), Lit(<<34>>),
     Rep("notgt", 0, TRUE, FALSE), Lit(<<62>>),
     Rep("dot", 0, FALSE, TRUE), Lit(<<60, 47, 112, 97, 116, 104, 62>>) >>

\* /<entry[^>]*>([\s\S]*?)<\/entry>/g
ListEntryPattern ==
  << Lit(<<60, 101, 110, 116, 114, 121>>), Rep("notgt", 0, TRUE, FALSE), Lit(<<62>>),
     Rep("any", 0, FALSE, TRUE), Lit(<<60, 47, 101, 110, 116, 114, 121, 62>>) >>

(***************************************************************************)
(* The output parsers of SvnReadService.  A property whose value is        *)
(* undefined is a field the record does not have.                          *)
(***************************************************************************)
\* STATUS_MAP[itemStatus] || ' '
StatusChar(item) ==
  CASE item = <<97, 100, 100, 101, 100>> -> <<65>>
    [] item = <<109, 111, 100, 105, 102, 105, 101, 100>> -> <<77>>
    [] item = <<100, 101, 108, 101, 116, 101, 100>> -> <<68>>
    [] item = <<114, 101, 112, 108, 97, 99, 101, 100>> -> <<82>>
    [] item = <<99, 111, 110, 102, 108, 105, 99, 116, 101, 100>> -> <<67>>
    [] item = <<111, 98, 115, 116, 114, 117, 99, 116, 101, 100>> -> <<126>>
    [] item = <<105, 103, 110, 111, 114, 101, 100>> -> <<73>>
    [] item = <<110, 111, 116, 45, 116, 114, 97, 99, 107, 101, 100>> -> <<63>>
    [] item = <<109, 105, 115, 115, 105, 110, 103>> -> <<33>>
    [] item = <<105, 110, 99, 111, 109, 112, 108, 101, 116, 101>> -> <<33>>
    [] item = <<101, 120, 116, 101, 114, 110, 97, 108>> -> <<88>>
    [] item = <<117, 110, 118, 101, 114, 115, 105, 111, 110, 101, 100>> -> <<63>>
    [] OTHER -> <<32>>

\* INVALID_REVISION
INVALID_REVISION == <<45, 49>>

\* isValidRevision
isValidRevision(revision) ==
  revision # <<>> /\ revision # INVALID_REVISION /\ IsNumeric(revision)

\* the lastChanged fields taken from the text of a <commit> element
CommitFields(commitMatch) ==
  Let(Match(commitMatch.caps[2], TextPattern(<<97, 117, 116, 104, 111, 114>>)), LAMBDA authorMatch :
  Let(Match(commitMatch.caps[2], TextPattern(<<100, 97, 116, 101>>)), LAMBDA dateMatch :
    Spread(Spread([lastChangedRevision |-> commitMatch.caps[1]],
                  IF authorMatch.ok
                  THEN [lastChangedAuthor |-> decodeHtmlEntities(authorMatch.caps[1])]
                  ELSE NoOptions),
           IF dateMatch.ok THEN [lastChangedDate |-> dateMatch.caps[1]] ELSE NoOptions)))

\* lines 725-758: status and revisions of the <wc-status> element of an entry
WcStatusFields(entryContent) ==
  Let(Match(entryContent, WcStatusPattern), LAMBDA wcStatusMatch :
    IF ~wcStatusMatch.ok THEN [status |-> <<32>>]
    ELSE Let(Match(wcStatusMatch.caps[3], CommitPattern), LAMBDA commitMatch :
           Spread(Spread([status |-> StatusChar(wcStatusMatch.caps[1])],
                         IF isValidRevision(wcStatusMatch.caps[2])
                         THEN [workingRevision |-> wcStatusMatch.caps[2]] ELSE NoOptions),
                  IF commitMatch.ok THEN CommitFields(commitMatch) ELSE NoOptions)))

\* lines 760-778: the fields of the <repos-status> element that are still
\* missing (a truthy lastChangedRevision keeps the whole commit out)
ReposStatusFields(entryContent, sofar) ==
  Let(Match(entryContent, ReposStatusPattern), LAMBDA reposStatusMatch :
    IF ~reposStatusMatch.ok THEN sofar
    ELSE Let(Match(reposStatusMatch.caps[2], CommitPattern), LAMBDA reposCommitMatch :
           IF reposCommitMatch.ok /\ ~Truthy(sofar, "lastChangedRevision")
           THEN Let(CommitFields(reposCommitMatch), LAMBDA c :
                  Spread(sofar,
                         [f \in {g \in DOMAIN c : g = "lastChangedRevision" \/ ~Truthy(sofar, g)}
                            |-> c[f]]))
           ELSE sofar))

\* the StatusItem of one match of the entry pattern
StatusItem(match) ==
  Spread([path |-> decodeHtmlEntities(match.caps[1])],
         ReposStatusFields(match.caps[2], WcStatusFields(match.caps[2])))

\* parseStatusOutput
parseStatusOutput(xmlOutput) ==
  Let(Match(xmlOutput, RootPattern(<<115, 116, 97, 116, 117, 115>>)), LAMBDA statusMatch :
    IF ~statusMatch.ok THEN <<>>
    ELSE Let(MatchAll(statusMatch.caps[1], StatusEntryPattern), LAMBDA entryMatches :
           [i \in 1..Len(entryMatches) |-> StatusItem(entryMatches[i])]))

\* the keys parseInfoOutput knows, each with the property it sets
InfoKeys ==
  << <<<<80, 97, 116, 104>>, "path">>, <<<<85, 82, 76>>, "url">>, <<<<82, 101, 108, 97, 116, 105, 118, 101, 32, 85, 82, 76>>, "relativeUrl">>,
     <<<<82, 101, 112, 111, 115, 105, 116, 111, 114, 121, 32, 82, 111, 111, 116>>, "repositoryRoot">>, <<<<82, 101, 112, 111, 115, 105, 116, 111, 114, 121, 32, 85, 85, 73, 68>>, "repositoryUuid">>,
     <<<<82, 101, 118, 105, 115, 105, 111, 110>>, "revision">>, <<<<78, 111, 100, 101, 32, 75, 105, 110, 100>>, "nodeKind">>, <<<<83, 99, 104, 101, 100, 117, 108, 101>>, "schedule">>,
     <<<<76, 97, 115, 116, 32, 67, 104, 97, 110, 103, 101, 100, 32, 65, 117, 116, 104, 111, 114>>, "lastChangedAuthor">>,
     <<<<76, 97, 115, 116, 32, 67, 104, 97, 110, 103, 101, 100, 32, 82, 101, 118>>, "lastChangedRev">>,
     <<<<76, 97, 115, 116, 32, 67, 104, 97, 110, 103, 101, 100, 32, 68, 97, 116, 101>>, "lastChangedDate">> >>

\* what one line of the info output sets
InfoLine(line) ==
  Let(FirstIn(line, {58}), LAMBDA colonIndex :
    IF colonIndex = 0 THEN NoOptions
    ELSE Let(Trim(SubSeq(line, 1, colonIndex - 1)), LAMBDA key :
         Let(Trim(SubSeq(line, colonIndex + 1, Len(line))), LAMBDA value :
           IF value = <<>> THEN NoOptions
           ELSE Let(SelectSeq(InfoKeys, LAMBDA kf : kf[1] = key), LAMBDA hit :
                  IF hit = <<>> THEN NoOptions ELSE [g \in {hit[1][2]} |-> value]))))

\* the lines of the output in their order, a later line overriding an earlier
RECURSIVE InfoFrom(_, _, _)
InfoFrom(lines, i, info) ==
  IF i > Len(lines) THEN info ELSE InfoFrom(lines, i + 1, Spread(info, InfoLine(lines[i])))

\* parseInfoOutput
parseInfoOutput(output) ==
  Let(Split(output, {10}), LAMBDA lines : InfoFrom(lines, 1, NoOptions))

\* the items of a <paths> block
LogPaths(pathsContent) ==
  Let(MatchAll(pathsContent, PathPattern), LAMBDA pathMatches :
    [i \in 1..Len(pathMatches) |->
       [action |-> pathMatches[i].caps[1],
        kind |-> pathMatches[i].caps[2],
        path |-> decodeHtmlEntities(pathMatches[i].caps[3])]])

\* the LogEntry of one match of the logentry pattern
LogEntry(match) ==
  Let(Match(match.caps[2], TextPattern(<<97, 117, 116, 104, 111, 114>>)), LAMBDA authorMatch :
  Let(Match(match.caps[2], TextPattern(<<100, 97, 116, 101>>)), LAMBDA dateMatch :
  Let(Match(match.caps[2], TextPattern(<<109, 115, 103>>)), LAMBDA msgMatch :
  Let(Match(match.caps[2], PathsPattern), LAMBDA pathsMatch :
    Spread([revision |-> match.caps[1],
            author |-> IF authorMatch.ok THEN decodeHtmlEntities(authorMatch.caps[1]) ELSE <<>>,
            date |-> IF dateMatch.ok THEN dateMatch.caps[1] ELSE <<>>,
            message |-> IF msgMatch.ok THEN decodeHtmlEntities(msgMatch.caps[1]) ELSE <<>>],
           IF pathsMatch.ok THEN [paths |-> LogPaths(pathsMatch.caps[1])] ELSE NoOptions)))))

\* parseLogOutput
parseLogOutput(xmlOutput) ==
  Let(Match(xmlOutput, RootPattern(<<108, 111, 103>>)), LAMBDA logMatch :
    IF ~logMatch.ok THEN <<>>
    ELSE Let(MatchAll(logMatch.caps[1], LogEntryPattern), LAMBDA entryMatches :
           [i \in 1..Len(entryMatches) |-> LogEntry(entryMatches[i])]))

\* the names of the entries that have one
RECURSIVE ListNames(_, _)
ListNames(entryMatches, i) ==
  IF i > Len(entryMatches) THEN <<>>
  ELSE Let(Match(entryMatches[i].caps[1], TextPattern(<<110, 97, 109, 101>>)), LAMBDA nameMatch :
         (IF nameMatch.ok THEN <<decodeHtmlEntities(nameMatch.caps[1])>> ELSE <<>>)
           \o ListNames(entryMatches, i + 1))

\* parseListOutput
parseListOutput(xmlOutput) ==
  Let(Match(xmlOutput, RootPattern(<<108, 105, 115, 116, 115>>)), LAMBDA listMatch :
    IF ~listMatch.ok THEN <<>>
    ELSE Let(MatchAll(listMatch.caps[1], ListEntryPattern), LAMBDA entryMatches :
           ListNames(entryMatches, 1)))

\* the text of an output as the parsers read it; the run of further
\* characters holds no line break, colon or markup, so one letter stands
\* for the run
OutString(o) == IF o.more = 0 THEN o.text ELSE o.text \o <<120>>

\* info, after the await: null for a failure, the parsed entity otherwise
infoReturn(result) ==
  IF ~result.success THEN Null ELSE parseInfoOutput(OutString(result.stdout))

\* status, after the await
statusReturn(result) ==
  IF ~result.success THEN <<>> ELSE parseStatusOutput(OutString(result.stdout))

\* log, after the await
logReturn(result) ==
  IF ~result.success THEN <<>> ELSE parseLogOutput(OutString(result.stdout))

\* list, after the await
listReturn(result) ==
  IF ~result.success THEN <<>> ELSE parseListOutput(OutString(result.stdout))

\* cat and diff, after the await
catReturn(result) == result.stdout

(***************************************************************************)
(* Specification SpecParse: the output parsers and decodeHtmlEntities      *)
(* applied to bounded outputs of the svn binary.  The XML documents are    *)
(* rendered from the entries they report, so that what a parser returns    *)
(* can be compared with what the document says.                            *)
(***************************************************************************)
\* most entries of one XML document
MaxEntries == 2

\* the text s as character data of an XML document
XmlEscape(str) ==
  FlatMap(str, LAMBDA c : CASE c = 38 -> <<38, 97, 109, 112, 59>>
                            [] c = 60 -> <<38, 108, 116, 59>>
                            [] c = 62 -> <<38, 103, 116, 59>>
                            [] c = 34 -> <<38, 113, 117, 111, 116, 59>>
                            [] OTHER -> <<c>>)

\* the entries of the status documents: the path, the item of <wc-status>
\* with the character the status table gives it, the revision attribute and
\* the nested commit when the entry has them
\*   a    modified, revision 5, commit 4 by al
\*   b    unversioned, neither revision nor commit
\*   c&d  added, revision -1
\*   e    an item the table does not know, revision 7
StatusEntries ==
  { [path |-> <<97>>, item |-> <<109, 111, 100, 105, 102, 105, 101, 100>>, char |-> <<77>>, revision |-> <<53>>,
     commit |-> <<[revision |-> <<52>>, author |-> <<97, 108>>, date |-> <<100, 49>>]>>],
    [path |-> <<98>>, item |-> <<117, 110, 118, 101, 114, 115, 105, 111, 110, 101, 100>>, char |-> <<63>>, revision |-> <<>>,
     commit |-> <<>>],
    [path |-> <<99, 38, 100>>, item |-> <<97, 100, 100, 101, 100>>, char |-> <<65>>, revision |-> <<45, 49>>,
     commit |-> <<>>],
    [path |-> <<101>>, item |-> <<111, 100, 100>>, char |-> <<32>>, revision |-> <<55>>,
     commit |-> <<>>] }

\* <entry path=".."><wc-status props="none" item=".." revision="..">
\* <commit revision=".."><author>..</author><date>..</date></commit>
\* </wc-status></entry>
RenderStatusEntry(e) ==
  <<60, 101, 110, 116, 114, 121, 32, 112, 97, 116, 104, 61, 34>> \o XmlEscape(e.path) \o <<34, 62, 60, 119, 99, 45, 115, 116, 97, 116, 117, 115, 32, 112, 114, 111, 112, 115, 61, 34, 110, 111, 110, 101, 34, 32, 105, 116, 101, 109, 61, 34>> \o e.item \o <<34>>
    \o (IF e.revision # <<>> THEN <<32, 114, 101, 118, 105, 115, 105, 111, 110, 61, 34>> \o e.revision \o <<34>> ELSE <<>>)
    \o <<62>>
    \o (IF e.commit # <<>>
        THEN <<60, 99, 111, 109, 109, 105, 116, 32, 114, 101, 118, 105, 115, 105, 111, 110, 61, 34>> \o e.commit[1].revision \o <<34, 62, 60, 97, 117, 116, 104, 111, 114, 62>>
               \o XmlEscape(e.commit[1].author) \o <<60, 47, 97, 117, 116, 104, 111, 114, 62, 60, 100, 97, 116, 101, 62>> \o e.commit[1].date
               \o <<60, 47, 100, 97, 116, 101, 62, 60, 47, 99, 111, 109, 109, 105, 116, 62>>
        ELSE <<>>)
    \o <<60, 47, 119, 99, 45, 115, 116, 97, 116, 117, 115, 62, 60, 47, 101, 110, 116, 114, 121, 62>>

RenderStatus(es) ==
  <<60, 115, 116, 97, 116, 117, 115, 62, 60, 116, 97, 114, 103, 101, 116, 32, 112, 97, 116, 104, 61, 34, 46, 34, 62>>
    \o Flatten([i \in 1..Len(es) |-> RenderStatusEntry(es[i])])
    \o <<60, 47, 116, 97, 114, 103, 101, 116, 62, 60, 47, 115, 116, 97, 116, 117, 115, 62>>

\* the entries of the log documents
\*   3  alice  d3  'fix'
\*   4  bo     d4  'a&b'       one changed path, M file /t/a
\*   5  cy     d5  'a' LF 'b'  a message of two lines
LogEntries ==
  { [revision |-> <<51>>, author |-> <<97, 108, 105, 99, 101>>, date |-> <<100, 51>>, msg |-> <<102, 105, 120>>, paths |-> <<>>,
     verbose |-> FALSE],
    [revision |-> <<52>>, author |-> <<98, 111>>, date |-> <<100, 52>>, msg |-> <<97, 38, 98>>,
     paths |-> <<[action |-> <<77>>, kind |-> <<102, 105, 108, 101>>, path |-> <<47, 116, 47, 97>>]>>, verbose |-> TRUE],
    [revision |-> <<53>>, author |-> <<99, 121>>, date |-> <<100, 53>>, msg |-> <<97, 10, 98>>, paths |-> <<>>,
     verbose |-> FALSE] }

\* <logentry revision=".."><author>..</author><date>..</date>
\* <paths><path action=".." kind="..">..</path></paths><msg>..</msg></logentry>
RenderLogEntry(e) ==
  <<60, 108, 111, 103, 101, 110, 116, 114, 121, 32, 114, 101, 118, 105, 115, 105, 111, 110, 61, 34>> \o e.revision \o <<34, 62, 60, 97, 117, 116, 104, 111, 114, 62>> \o XmlEscape(e.author)
    \o <<60, 47, 97, 117, 116, 104, 111, 114, 62, 60, 100, 97, 116, 101, 62>> \o e.date \o <<60, 47, 100, 97, 116, 101, 62>>
    \o (IF e.verbose
        THEN <<60, 112, 97, 116, 104, 115, 62>>
               \o Flatten([i \in 1..Len(e.paths) |->
                    <<60, 112, 97, 116, 104, 32, 97, 99, 116, 105, 111, 110, 61, 34>> \o e.paths[i].action \o <<34, 32, 107, 105, 110, 100, 61, 34>> \o e.paths[i].kind
                      \o <<34, 62>> \o XmlEscape(e.paths[i].path) \o <<60, 47, 112, 97, 116, 104, 62>>])
               \o <<60, 47, 112, 97, 116, 104, 115, 62>>
        ELSE <<>>)
    \o <<60, 109, 115, 103, 62>> \o XmlEscape(e.msg) \o <<60, 47, 109, 115, 103, 62, 60, 47, 108, 111, 103, 101, 110, 116, 114, 121, 62>>

RenderLog(es) ==
  <<60, 108, 111, 103, 62>> \o Flatten([i \in 1..Len(es) |-> RenderLogEntry(es[i])]) \o <<60, 47, 108, 111, 103, 62>>

\* the names of the list documents:  a.c   d&e
ListEntries == { [name |-> <<97, 46, 99>>], [name |-> <<100, 38, 101>>] }

RenderList(es) ==
  <<60, 108, 105, 115, 116, 115, 62, 60, 108, 105, 115, 116, 32, 112, 97, 116, 104, 61, 34, 46, 34, 62>>
    \o Flatten([i \in 1..Len(es) |->
         <<60, 101, 110, 116, 114, 121, 32, 107, 105, 110, 100, 61, 34, 102, 105, 108, 101, 34, 62, 60, 110, 97, 109, 101, 62>> \o XmlEscape(es[i].name) \o <<60, 47, 110, 97, 109, 101, 62, 60, 47, 101, 110, 116, 114, 121, 62>>])
    \o <<60, 47, 108, 105, 115, 116, 62, 60, 47, 108, 105, 115, 116, 115, 62>>

\* outputs of svn info: three known keys; an unknown key; a known key with
\* a blank value; a line without a colon
InfoTexts ==
  { <<80, 97, 116, 104, 58, 32, 97, 10, 85, 82, 76, 58, 32, 104, 116, 116, 112, 115, 58, 47, 47, 104, 47, 114, 10, 82, 101, 118, 105, 115, 105, 111, 110, 58, 32, 53, 10>>,
    <<70, 111, 111, 58, 32, 120, 10>>,
    <<80, 97, 116, 104, 58, 32, 32, 32, 10>>,
    <<110, 111, 32, 107, 101, 121, 32, 104, 101, 114, 101>> }

\* outputs that are no document: nothing; an error text; a root element
\* that is never closed; a log document whose first line is lost
OtherTexts ==
  { <<>>,
    <<115, 118, 110, 58, 32, 69, 49, 53, 53, 48, 48, 55>>,
    <<60, 115, 116, 97, 116, 117, 115, 62, 60, 116, 97, 114, 103, 101, 116, 32, 112, 97, 116, 104, 61, 34, 46, 34, 62>>,
    <<60, 108, 111, 103, 101, 110, 116, 114, 121, 32, 114, 101, 118, 105, 115, 105, 111, 110, 61, 34, 49, 34, 62, 60, 109, 115, 103, 62, 109, 60, 47, 109, 115, 103, 62, 60, 47, 108, 111, 103, 101, 110, 116, 114, 121, 62, 60, 108, 111, 103, 101, 110, 116, 114, 121, 32, 114, 101, 118, 105, 115, 105, 111, 110, 61, 34, 50, 34, 62, 60, 109, 115, 103, 62, 110, 60, 47, 109, 115, 103, 62, 60, 47, 108, 111, 103, 101, 110, 116, 114, 121, 62, 60, 47, 108, 111, 103, 62>> }

\* the outputs handed to the parsers, each with the entries it reports
ParseInputs ==
  { [kind |-> "status", entries |-> es, text |-> RenderStatus(es)] :
      es \in SeqsUpTo(StatusEntries, MaxEntries) }
  \cup { [kind |-> "log", entries |-> es, text |-> RenderLog(es)] :
           es \in SeqsUpTo(LogEntries, MaxEntries) }
  \cup { [kind |-> "list", entries |-> es, text |-> RenderList(es)] :
           es \in SeqsUpTo(ListEntries, MaxEntries) }
  \cup { [kind |-> "info", entries |-> <<>>, text |-> t] : t \in InfoTexts }
  \cup { [kind |-> "other", entries |-> <<>>, text |-> t] : t \in OtherTexts }

\* texts handed to decodeHtmlEntities
\*   a&amp;b   &lt;b&gt;   &amp;lt;   &amp;amp;   &#38;lt;   &#x26;amp;
\*   50%   a%20b   %2541   a%26amp;b   &quot;q&#39;
EntityTexts ==
  { <<97, 38, 97, 109, 112, 59, 98>>, <<38, 108, 116, 59, 98, 38, 103, 116, 59>>, <<38, 97, 109, 112, 59, 108, 116, 59>>, <<38, 97, 109, 112, 59, 97, 109, 112, 59>>, <<38, 35, 51, 56, 59, 108, 116, 59>>, <<38, 35, 120, 50, 54, 59, 97, 109, 112, 59>>,
    <<53, 48, 37>>, <<97, 37, 50, 48, 98>>, <<37, 50, 53, 52, 49>>, <<97, 37, 50, 54, 97, 109, 112, 59, 98>>, <<38, 113, 117, 111, 116, 59, 113, 38, 35, 51, 57, 59>> }

ParserNames == {"parseStatusOutput", "parseLogOutput", "parseListOutput", "info"}

InitParse ==
  /\ platform = "posix"
  /\ defaultOptions = NoOptions
  /\ pc = "start"
  /\ call \in {[op |-> p, kind |-> d.kind, entries |-> d.entries, text |-> d.text] :
                 p \in ParserNames, d \in ParseInputs}
              \cup {[op |-> "decodeHtmlEntities", kind |-> "entities", entries |-> <<>>,
                     text |-> t] : t \in EntityTexts}
  /\ ret = <<>>
  /\ prev = <<>>
  /\ processEnv = NoOptions
  /\ children = <<>>

CallParseStatusOutput ==
  /\ pc = "start"
  /\ call.op = "parseStatusOutput"
  /\ pc' = "parsed"
  /\ ret' = parseStatusOutput(call.text)
  /\ UNCHANGED <<platform, defaultOptions, call, prev, processEnv, children>>

CallParseLogOutput ==
  /\ pc = "start"
  /\ call.op = "parseLogOutput"
  /\ pc' = "parsed"
  /\ ret' = parseLogOutput(call.text)
  /\ UNCHANGED <<platform, defaultOptions, call, prev, processEnv, children>>

CallParseListOutput ==
  /\ pc = "start"
  /\ call.op = "parseListOutput"
  /\ pc' = "parsed"
  /\ ret' = parseListOutput(call.text)
  /\ UNCHANGED <<platform, defaultOptions, call, prev, processEnv, children>>

\* info, from the successful result of executeCommand on
InfoReturns ==
  /\ pc = "start"
  /\ call.op = "info"
  /\ pc' = "parsed"
  /\ ret' = infoReturn([success |-> TRUE,
                        stdout |-> [text |-> Trim(call.text), more |-> 0],
                        stderr |-> <<>>])
  /\ UNCHANGED <<platform, defaultOptions, call, prev, processEnv, children>>

CallDecodeHtmlEntities ==
  /\ pc = "start"
  /\ call.op = "decodeHtmlEntities"
  /\ pc' = "parsed"
  /\ ret' = decodeHtmlEntities(call.text)
  /\ UNCHANGED <<platform, defaultOptions, call, prev, processEnv, children>>

NextParse ==
  \/ CallParseStatusOutput
  \/ CallParseLogOutput
  \/ CallParseListOutput
  \/ InfoReturns
  \/ CallDecodeHtmlEntities

SpecParse == InitParse /\ [][NextParse]_vars

(***************************************************************************)
(* The read operations and checkout: the arguments each one hands to       *)
(* buildSvnArgs.  An absent path or an absent option is the empty string.  *)
(***************************************************************************)
\* path ? [path] : []
buildPathArgs(path) == IF path # <<>> THEN <<path>> ELSE <<>>

\* revision ? ['--revision', String(revision)] : []
buildRevisionArgs(options) ==
  IF Truthy(options, "revision") THEN <<<<45, 45, 114, 101, 118, 105, 115, 105, 111, 110>>, options.revision>> ELSE <<>>

\* depth ? ['--depth', depth] : []
buildDepthArgs(options) ==
  IF Truthy(options, "depth") THEN <<<<45, 45, 100, 101, 112, 116, 104>>, options.depth>> ELSE <<>>

buildLogArgs(options) ==
  (IF Truthy(options, "limit") THEN <<<<45, 45, 108, 105, 109, 105, 116>>, options.limit>> ELSE <<>>)
  \o buildRevisionArgs(options)
  \o (IF IsSet(options, "stopOnCopy") THEN <<<<45, 45, 115, 116, 111, 112, 45, 111, 110, 45, 99, 111, 112, 121>>>> ELSE <<>>)

buildListArgs(options) ==
  buildRevisionArgs(options)
  \o (IF IsSet(options, "recursive") THEN <<<<45, 45, 114, 101, 99, 117, 114, 115, 105, 118, 101>>>> ELSE <<>>)
  \o buildDepthArgs(options)

buildDiffRevisionArgs(options) ==
  IF Truthy(options, "revision") THEN <<<<45, 45, 114, 101, 118, 105, 115, 105, 111, 110>>, options.revision>>
  ELSE IF Truthy(options, "oldRevision") /\ Truthy(options, "newRevision")
  THEN <<<<45, 45, 114, 101, 118, 105, 115, 105, 111, 110>>, options.oldRevision \o <<58>> \o options.newRevision>>
  ELSE <<>>

buildDiffCmdArgs(options) ==
  IF Truthy(options, "diffCmd") THEN <<<<45, 45, 100, 105, 102, 102, 45, 99, 109, 100>>, options.diffCmd>> ELSE <<>>

\* the paths of diff, each resolved with the merged options when it is given
\* and pushed when the resolved path is not empty
buildDiffPathArgs(path1, path2, options, defaults, plat) ==
  Let(mergeOptions(defaults, options), LAMBDA mergedOptions :
    buildPathArgs(IF path1 # <<>> THEN resolvePath(path1, mergedOptions, plat) ELSE <<>>)
    \o buildPathArgs(IF path2 # <<>> THEN resolvePath(path2, mergedOptions, plat) ELSE <<>>))

buildExportFlags(options) ==
  (IF IsSet(options, "force") THEN <<<<45, 45, 102, 111, 114, 99, 101>>>> ELSE <<>>)
  \o (IF Truthy(options, "nativeEol") THEN <<<<45, 45, 110, 97, 116, 105, 118, 101, 45, 101, 111, 108>>, options.nativeEol>> ELSE <<>>)
  \o (IF IsSet(options, "ignoreExternals") THEN <<<<45, 45, 105, 103, 110, 111, 114, 101, 45, 101, 120, 116, 101, 114, 110, 97, 108, 115>>>> ELSE <<>>)

\* the source of export resolved with the merged options, then the
\* destination as it was given
buildExportPathArgs(sourcePath, destinationPath, options, defaults, plat) ==
  buildPathArgs(resolvePath(sourcePath, mergeOptions(defaults, options), plat))
  \o <<destinationPath>>

\* the record o less its field repositoryUrl
WithoutRepoUrl(o) == [f \in (DOMAIN o) \ {"repositoryUrl"} |-> o[f]]

\* a plausible slip: the field is deleted from the record of the caller
DeleteInPlace(options) ==
  [caller |-> WithoutRepoUrl(options), copy |-> WithoutRepoUrl(options)]

\* const copy = { ...options }; delete copy.repositoryUrl: the record of the
\* caller after the two statements, and the copy
CopyThenDelete(options) ==
  [caller |-> options, copy |-> WithoutRepoUrl(Spread(NoOptions, options))]

ReadOps == {"info", "status", "log", "list", "cat", "diff"}

\* the name of an operation as svn knows it
CommandName(op) ==
  CASE op = "info" -> <<105, 110, 102, 111>>
    [] op = "status" -> <<115, 116, 97, 116, 117, 115>>
    [] op = "log" -> <<108, 111, 103>>
    [] op = "list" -> <<108, 105, 115, 116>>
    [] op = "cat" -> <<99, 97, 116>>
    [] op = "diff" -> <<100, 105, 102, 102>>
    [] op = "export" -> <<101, 120, 112, 111, 114, 116>>
    [] op = "checkout" -> <<99, 104, 101, 99, 107, 111, 117, 116>>

\* the args of the read operation op called with (path, options), and for
\* diff with (path, path2, options)
ReadArgs(op, path, path2, options, defaults, plat) ==
  CASE op = "info" -> buildPathArgs(path)
    [] op = "status" -> <<<<45, 45, 120, 109, 108>>, <<45, 45, 115, 104, 111, 119, 45, 117, 112, 100, 97, 116, 101, 115>>>> \o buildPathArgs(path)
    [] op = "log" -> <<<<45, 45, 120, 109, 108>>>> \o buildLogArgs(options) \o buildPathArgs(path)
    [] op = "list" -> <<<<45, 45, 120, 109, 108>>>> \o buildListArgs(options) \o buildPathArgs(path)
    [] op = "cat" -> buildRevisionArgs(options) \o <<path>>
    [] op = "diff" -> buildDiffRevisionArgs(options) \o buildDiffCmdArgs(options)
                        \o buildDiffPathArgs(path, path2, options, defaults, plat)

\* [command, mergedOptions] of a read operation
ReadBuilt(op, path, path2, options, defaults, plat) ==
  buildSvnArgs(CommandName(op), ReadArgs(op, path, path2, options, defaults, plat),
               options, defaults, plat)

\* [command, mergedOptions] of export(sourcePath, localPath, options)
exportBuilt(sourcePath, localPath, options, defaults, plat) ==
  buildSvnArgs(CommandName("export"),
               buildRevisionArgs(options) \o buildDepthArgs(options)
                 \o buildExportFlags(options)
                 \o buildExportPathArgs(sourcePath, localPath, options, defaults, plat),
               CopyThenDelete(options).copy, defaults, plat)

\* [command, mergedOptions] of checkout(repositoryUrl, localPath, options)
checkoutBuilt(repositoryUrl, localPath, options, defaults, plat) ==
  buildSvnArgs(CommandName("checkout"),
               buildRevisionArgs(options) \o buildDepthArgs(options)
                 \o <<repositoryUrl, localPath>>,
               CopyThenDelete(options).copy, defaults, plat)

\* what a read operation returns for the result of executeCommand
ReadReturn(op, result) ==
  CASE op = "info" -> infoReturn(result)
    [] op = "status" -> statusReturn(result)
    [] op = "log" -> logReturn(result)
    [] op = "list" -> listReturn(result)
    [] op \in {"cat", "diff"} -> catReturn(result)

(***************************************************************************)
(* Specification SpecExec: executeCommand called directly, as the write    *)
(* operations do, or by cat and diff; the subprocess behaves in any of the *)
(* ways of ChildBehaviours.                                                *)
(***************************************************************************)
\* the default options of the service:  {}   {username: 'u'}
ExecDefaults == { NoOptions, [username |-> <<117>>] }

\* per-call options:  {}   {username: 'v', password: 'p w'}
\*                    {username: '', password: 'p'}
ExecOptionChoices ==
  { NoOptions,
    [username |-> <<118>>, password |-> <<112, 32, 119>>],
    [username |-> <<>>, password |-> <<112>>] }

\* process.env:  PATH=/b   PATH=/b LANG=fr LC_MESSAGES=fr
\*               PATH=/b LC_ALL=fr SVN_USERNAME=h
HostEnvs ==
  { [PATH |-> <<47, 98>>],
    [PATH |-> <<47, 98>>, LANG |-> <<102, 114>>, LC_MESSAGES |-> <<102, 114>>],
    [PATH |-> <<47, 98>>, LC_ALL |-> <<102, 114>>, SVN_USERNAME |-> <<104>>] }

\* svn info
InfoCommand == <<115, 118, 110, 32, 105, 110, 102, 111>>

\* the path handed to cat and diff:  a.c
ReadPath == <<97, 46, 99>>

InitExec ==
  /\ platform \in Platforms
  /\ defaultOptions \in ExecDefaults
  /\ pc = "idle"
  /\ call = [op |-> "none"]
  /\ ret = <<>>
  /\ prev = <<>>
  /\ processEnv \in HostEnvs
  /\ children = <<>>

\* the subprocess exec() is asked to start
Child(command, options) ==
  [command |-> command,
   env |-> buildEnvironment(options, processEnv, platform),
   maxBuffer |-> MAX_BUFFER,
   behaviour |-> [kind |-> "running"]]

\* executeCommand up to its await: the subprocess is launched, or
\* process.cwd() throws and the error is handled at once
BeginExecuteCommand(command, options, cwdThrows) ==
  IF cwdThrows
  THEN /\ pc' = "returned"
       /\ children' = <<>>
       /\ ret' = handleCommandError(CwdError)
  ELSE /\ pc' = "awaiting"
       /\ children' = <<Child(command, options)>>
       /\ ret' = <<>>

\* executeCommand(command) and executeCommand(command, mergedOptions)
CallExecuteCommand ==
  \E o \in ExecOptionChoices, given \in BOOLEAN, cwdThrows \in BOOLEAN :
    /\ pc = "idle"
    /\ given \/ o = NoOptions
    /\ call' = IF given
               THEN [op |-> "executeCommand", command |-> InfoCommand, mergedOptions |-> o]
               ELSE [op |-> "executeCommand", command |-> InfoCommand]
    /\ BeginExecuteCommand(InfoCommand,
                           IF given THEN o ELSE mergeOptions(defaultOptions, NoOptions),
                           cwdThrows)
    /\ UNCHANGED <<platform, defaultOptions, prev, processEnv>>

\* cat(path, options) and diff(path, undefined, options) up to the await of
\* executeCommand
CallCat ==
  \E op \in {"cat", "diff"}, o \in ExecOptionChoices, cwdThrows \in BOOLEAN :
    /\ pc = "idle"
    /\ call' = [op |-> op, path |-> ReadPath, options |-> o]
    /\ \E built \in {ReadBuilt(op, ReadPath, <<>>, o, defaultOptions, platform)} :
         BeginExecuteCommand(built.command, built.options, cwdThrows)
    /\ UNCHANGED <<platform, defaultOptions, prev, processEnv>>

\* the promise of the last launch, for a subprocess that behaves as b
Promise(b) ==
  execAsync(children[Len(children)].command, b, children[Len(children)].maxBuffer, platform)

\* the children with the behaviour of the last one recorded
Settled(b) == [children EXCEPT ![Len(children)].behaviour = b]

\* the promise of execAsync is resolved: lines 70-74
ExecResolves ==
  \E b \in ChildBehaviours :
    /\ pc = "awaiting"
    /\ Promise(b).resolved
    /\ ret' = [success |-> TRUE,
               stdout |-> TrimOut(Promise(b).stdout),
               stderr |-> Trim(Promise(b).stderr)]
    /\ pc' = "returned"
    /\ children' = Settled(b)
    /\ UNCHANGED <<platform, defaultOptions, call, prev, processEnv>>

\* a plausible slip: a rejected launch is tried once more
ExecRejectsRetry ==
  \E b \in ChildBehaviours :
    /\ pc = "awaiting"
    /\ ~Promise(b).resolved
    /\ IF Len(children) < 2
       THEN /\ pc' = "awaiting"
            /\ ret' = ret
            /\ children' = Append(Settled(b), children[Len(children)])
       ELSE /\ pc' = "returned"
            /\ ret' = handleCommandError(Promise(b).error)
            /\ children' = Settled(b)
    /\ UNCHANGED <<platform, defaultOptions, call, prev, processEnv>>

\* the promise of execAsync is rejected: lines 75-77
ExecRejects ==
  \E b \in ChildBehaviours :
    /\ pc = "awaiting"
    /\ ~Promise(b).resolved
    /\ ret' = handleCommandError(Promise(b).error)
    /\ pc' = "returned"
    /\ children' = Settled(b)
    /\ UNCHANGED <<platform, defaultOptions, call, prev, processEnv>>

\* cat and diff return result.stdout
CatReturns ==
  /\ pc = "returned"
  /\ call.op \in {"cat", "diff"}
  /\ pc' = "done"
  /\ prev' = ret
  /\ ret' = ret.stdout
  /\ UNCHANGED <<platform, defaultOptions, call, processEnv, children>>

\* the caller takes the value returned; the service is idle again
ResultTaken ==
  /\ \/ pc = "returned" /\ call.op \in {"executeCommand", "export", "checkout"}
     \/ pc = "done"
  /\ pc' = "idle"
  /\ call' = [op |-> "none"]
  /\ ret' = <<>>
  /\ prev' = <<>>
  /\ children' = <<>>
  /\ UNCHANGED <<platform, defaultOptions, processEnv>>

NextExec == CallExecuteCommand \/ CallCat \/ ExecResolves \/ ExecRejects \/ CatReturns \/ ResultTaken

SpecExec == InitExec /\ [][NextExec]_vars

(***************************************************************************)
(* Specification SpecOps: the read operations, export and checkout called  *)
(* on a service whose default options may carry a base repository          *)
(* location; the subprocess behaves in any of the ways of ChildBehaviours. *)
(***************************************************************************)
\* the base repository location:  svn://h/r
OpsBase == <<115, 118, 110, 58, 47, 47, 104, 47, 114>>

\* default options:  {}   {repositoryUrl: 'svn://h/r'}
OpsDefaults == { NoOptions, [repositoryUrl |-> OpsBase] }

\* per-call options:  {}   {repositoryUrl: 'svn://h/r'}   {revision: '5'}
OpsOptionChoices ==
  { NoOptions, [repositoryUrl |-> OpsBase], [revision |-> <<53>>] }

\* paths handed to the operations:  a.c   svn://h/r/t
OpsPaths == { <<97, 46, 99>>, <<115, 118, 110, 58, 47, 47, 104, 47, 114, 47, 116>> }

\* second paths of diff (none, b.c) and local paths of export and checkout
OpsSecondPaths == { <<>>, <<98, 46, 99>> }
OpsLocalPaths == { <<119>>, <<47, 119, 47, 97>> }

InitOps ==
  /\ platform \in Platforms
  /\ defaultOptions \in OpsDefaults
  /\ pc = "idle"
  /\ call = [op |-> "none"]
  /\ ret = <<>>
  /\ prev = <<>>
  /\ processEnv = [PATH |-> <<47, 98>>]
  /\ children = <<>>

\* info, status, log, list, cat, diff up to the await of executeCommand
CallRead ==
  \E op \in ReadOps, p \in OpsPaths, p2 \in OpsSecondPaths, o \in OpsOptionChoices :
    /\ pc = "idle"
    /\ op # "diff" => p2 = <<>>
    /\ call' = [op |-> op, path |-> p, path2 |-> p2, options |-> o]
    /\ \E built \in {ReadBuilt(op, p, p2, o, defaultOptions, platform)} :
         BeginExecuteCommand(built.command, built.options, FALSE)
    /\ UNCHANGED <<platform, defaultOptions, prev, processEnv>>

\* export(sourcePath, localPath, options) up to the await of executeCommand
CallExport ==
  \E p \in OpsPaths, l \in OpsLocalPaths, o \in OpsOptionChoices :
    /\ pc = "idle"
    /\ call' = [op |-> "export", path |-> p, path2 |-> l, options |-> o]
    /\ \E built \in {exportBuilt(p, l, o, defaultOptions, platform)} :
         BeginExecuteCommand(built.command, built.options, FALSE)
    /\ UNCHANGED <<platform, defaultOptions, prev, processEnv>>

\* checkout(repositoryUrl, localPath, options) up to the await of
\* executeCommand
CallCheckout ==
  \E u \in OpsPaths, l \in OpsLocalPaths, o \in OpsOptionChoices :
    /\ pc = "idle"
    /\ isUrl(u)
    /\ call' = [op |-> "checkout", path |-> u, path2 |-> l, options |-> o]
    /\ \E built \in {checkoutBuilt(u, l, o, defaultOptions, platform)} :
         BeginExecuteCommand(built.command, built.options, FALSE)
    /\ UNCHANGED <<platform, defaultOptions, prev, processEnv>>

\* a read operation returns: null, an empty list, the parsed output, or
\* result.stdout
ReadReturns ==
  /\ pc = "returned"
  /\ call.op \in ReadOps
  /\ pc' = "done"
  /\ prev' = ret
  /\ ret' = ReadReturn(call.op, ret)
  /\ UNCHANGED <<platform, defaultOptions, call, processEnv, children>>

NextOps ==
  CallRead \/ CallExport \/ CallCheckout \/ ExecResolves \/ ExecRejects \/ ReadReturns \/ ResultTaken

SpecOps == InitOps /\ [][NextOps]_vars


(***************************************************************************)
(* Specification SpecConc: two callers use one service at the same time.   *)
(* Caller 1 calls info, caller 2 calls cat; setDefaultOptions may run      *)
(* whenever no synchronous code of a call runs, that is between any two    *)
(* steps.  A call is two steps: the synchronous code up to the await of    *)
(* execAsync (buildSvnArgs, buildEnvironment, the launch), and the code    *)
(* after the promise has settled.  Here pc, call, ret and children hold    *)
(* one value for each caller, and prev records what the specification      *)
(* needs of the past: the configured options (the merge of the records     *)
(* handed to setDefaultOptions) and, for each caller, the configured       *)
(* options at the time of its call.                                        *)
(***************************************************************************)
Callers == {1, 2}

\* the operation of each caller
ConcOp(c) == IF c = 1 THEN "info" ELSE "cat"

\* records handed to setDefaultOptions:
\*   {username: 'd', repositoryUrl: 'svn://h/r'}   {username: 'e'}
ConcDefaultRecords ==
  { [username |-> <<100>>, repositoryUrl |-> OpsBase], [username |-> <<101>>] }

\* per-call options of caller 1:  {}   {username: 'u1', password: 'p1'}
\* per-call options of caller 2:  {}   {username: 'u2', password: 'p2'}
ConcOptionChoices(c) ==
  IF c = 1 THEN { NoOptions, [username |-> <<117, 49>>, password |-> <<112, 49>>] }
  ELSE { NoOptions, [username |-> <<117, 50>>, password |-> <<112, 50>>] }

\* the subprocess prints 'Path: a\n' and exits with 0, or prints 'E1\n' on
\* stderr and exits with 1, or the binary is missing
ConcBehaviours ==
  { [kind |-> "exit", status |-> 0, out |-> [text |-> <<80, 97, 116, 104, 58, 32, 97, 10>>, more |-> 0], err |-> <<>>],
    [kind |-> "exit", status |-> 1, out |-> EmptyOut, err |-> <<69, 49, 10>>],
    [kind |-> "noBinary"] }

\* what executeCommand returns once the promise of execAsync has settled
ExecutionResult(promise) ==
  IF promise.resolved
  THEN [success |-> TRUE,
        stdout |-> TrimOut(promise.stdout),
        stderr |-> Trim(promise.stderr)]
  ELSE handleCommandError(promise.error)

InitConc ==
  /\ platform \in Platforms
  /\ defaultOptions = NoOptions
  /\ pc = [c \in Callers |-> "idle"]
  /\ call = [c \in Callers |-> [op |-> "none"]]
  /\ ret = [c \in Callers |-> <<>>]
  /\ prev = [configured |-> NoOptions, atCall |-> [c \in Callers |-> NoOptions]]
  /\ processEnv = [PATH |-> <<47, 98>>]
  /\ children = [c \in Callers |-> <<>>]

\* setDefaultOptions(o), at any time between two steps of the calls
ConcSetDefaultOptions ==
  \E o \in ConcDefaultRecords :
    /\ defaultOptions' = Spread(defaultOptions, o)
    /\ defaultOptions' # defaultOptions    \* otherwise nothing changes
    /\ prev' = [prev EXCEPT !.configured = Spread(prev.configured, o)]
    /\ UNCHANGED <<platform, pc, call, ret, processEnv, children>>

\* a plausible slip: mergeOptions keeps the merged options as the defaults
ConcBeginsAssigningDefaults ==
  \E c \in Callers : \E o \in ConcOptionChoices(c) :
    /\ pc[c] = "idle"
    /\ call' = [call EXCEPT ![c] = [op |-> ConcOp(c), path |-> ReadPath, options |-> o]]
    /\ \E built \in {ReadBuilt(ConcOp(c), ReadPath, <<>>, o, defaultOptions, platform)} :
         /\ children' = [children EXCEPT ![c] = <<Child(built.command, built.options)>>]
         /\ defaultOptions' = built.options
    /\ pc' = [pc EXCEPT ![c] = "awaiting"]
    /\ prev' = [prev EXCEPT !.atCall[c] = prev.configured]
    /\ UNCHANGED <<platform, ret, processEnv>>

\* caller c calls its operation: the synchronous code up to the await of
\* execAsync builds the command and the environment from the defaults of
\* this moment and launches the subprocess
ConcBegins ==
  \E c \in Callers : \E o \in ConcOptionChoices(c) :
    /\ pc[c] = "idle"
    /\ call' = [call EXCEPT ![c] = [op |-> ConcOp(c), path |-> ReadPath, options |-> o]]
    /\ \E built \in {ReadBuilt(ConcOp(c), ReadPath, <<>>, o, defaultOptions, platform)} :
         children' = [children EXCEPT ![c] = <<Child(built.command, built.options)>>]
    /\ pc' = [pc EXCEPT ![c] = "awaiting"]
    /\ prev' = [prev EXCEPT !.atCall[c] = prev.configured]
    /\ UNCHANGED <<platform, defaultOptions, ret, processEnv>>

\* the subprocess of caller c ends as b: executeCommand makes its result
\* and the operation makes its return value of it
ConcSettles ==
  \E c \in Callers, b \in ConcBehaviours :
    /\ pc[c] = "awaiting"
    /\ \E result \in {ExecutionResult(execAsync(children[c][1].command, b,
                                                  children[c][1].maxBuffer, platform))} :
         ret' = [ret EXCEPT ![c] = ReadReturn(call[c].op, result)]
    /\ children' = [children EXCEPT ![c][1].behaviour = b]
    /\ pc' = [pc EXCEPT ![c] = "returned"]
    /\ UNCHANGED <<platform, defaultOptions, call, prev, processEnv>>

\* caller c takes the value returned and is idle again
ConcResultTaken ==
  \E c \in Callers :
    /\ pc[c] = "returned"
    /\ pc' = [pc EXCEPT ![c] = "idle"]
    /\ call' = [call EXCEPT ![c] = [op |-> "none"]]
    /\ ret' = [ret EXCEPT ![c] = <<>>]
    /\ children' = [children EXCEPT ![c] = <<>>]
    /\ prev' = [prev EXCEPT !.atCall[c] = NoOptions]
    /\ UNCHANGED <<platform, defaultOptions, processEnv>>

NextConc == ConcSetDefaultOptions \/ ConcBegins \/ ConcSettles \/ ConcResultTaken

SpecConc == InitConc /\ [][NextConc]_vars


(***************************************************************************)
(* Specification SpecFacade: SvnService in front of its read service and   *)
(* its write service, each with default options of its own.  Here          *)
(* defaultOptions holds the defaults of both services, and prev the        *)
(* records handed to SvnService.setDefaultOptions so far, in order (the    *)
(* first one by SvnModule.forRoot).  One caller calls info and export (on  *)
(* the read service) and checkout (on the write service);                  *)
(* setDefaultOptions may run before, between and during the calls.         *)
(***************************************************************************)
\* most calls of setDefaultOptions
MaxSets == 3

\* a plausible slip: the record given replaces the defaults
setDefaultOptionsReplaces(defaults, options) == options

\* this.defaultOptions = { ...this.defaultOptions, ...options }
setDefaultOptions(defaults, options) == Spread(defaults, options)

FacadeOps == {"info", "export", "checkout"}

\* per-call options:  {}   {username: 'v', repositoryUrl: 'svn://h/r'}
FacadeOptionChoices == { NoOptions, [username |-> <<118>>, repositoryUrl |-> OpsBase] }

\* [command, mergedOptions] of the operation op, built by the service that
\* carries it out
FacadeBuilt(op, options) ==
  CASE op = "info" ->
         ReadBuilt(op, ReadPath, <<>>, options, defaultOptions.read, platform)
    [] op = "export" ->
         exportBuilt(ReadPath, <<119>>, options, defaultOptions.read, platform)
    [] op = "checkout" ->
         checkoutBuilt(<<115, 118, 110, 58, 47, 47, 104, 47, 114, 47, 116>>, <<119>>, options, defaultOptions.write, platform)

\* the options record of the caller after the synchronous code of op
CallerOptionsAfter(op, options) ==
  IF op \in {"export", "checkout"} THEN CopyThenDelete(options).caller ELSE options

InitFacade ==
  /\ platform \in Platforms
  /\ defaultOptions = [read |-> NoOptions, write |-> NoOptions]
  /\ pc = "idle"
  /\ call = [op |-> "none"]
  /\ ret = <<>>
  /\ prev = <<>>
  /\ processEnv = [PATH |-> <<47, 98>>]
  /\ children = <<>>

\* SvnService.setDefaultOptions(o): the read service, then the write service
FacadeSetDefaultOptions ==
  \E o \in ConcDefaultRecords :
    /\ Len(prev) < MaxSets
    /\ defaultOptions' = [read |-> setDefaultOptions(defaultOptions.read, o),
                          write |-> setDefaultOptions(defaultOptions.write, o)]
    /\ prev' = Append(prev, o)
    /\ UNCHANGED <<platform, pc, call, ret, processEnv, children>>

\* the caller calls op with the record o: the synchronous code up to the
\* await of execAsync
FacadeCalls ==
  \E op \in FacadeOps, o \in FacadeOptionChoices :
    /\ pc = "idle"
    /\ call' = [op |-> op, given |-> o, options |-> CallerOptionsAfter(op, o)]
    /\ \E built \in {FacadeBuilt(op, o)} :
         BeginExecuteCommand(built.command, built.options, FALSE)
    /\ UNCHANGED <<platform, defaultOptions, prev, processEnv>>

\* the subprocess ends as b: executeCommand makes its result, info makes its
\* return value of it, export and checkout hand it on
FacadeSettles ==
  \E b \in ConcBehaviours :
    /\ pc = "awaiting"
    /\ \E result \in {ExecutionResult(Promise(b))} :
         ret' = IF call.op \in ReadOps THEN ReadReturn(call.op, result) ELSE result
    /\ children' = Settled(b)
    /\ pc' = "returned"
    /\ UNCHANGED <<platform, defaultOptions, call, prev, processEnv>>

\* the caller takes the value returned
FacadeResultTaken ==
  /\ pc = "returned"
  /\ pc' = "idle"
  /\ call' = [op |-> "none"]
  /\ ret' = <<>>
  /\ children' = <<>>
  /\ UNCHANGED <<platform, defaultOptions, prev, processEnv>>

NextFacade == FacadeSetDefaultOptions \/ FacadeCalls \/ FacadeSettles \/ FacadeResultTaken

SpecFacade == InitFacade /\ [][NextFacade]_vars


(***************************************************************************)
(* Properties of escapeShellArg, checked under SpecEscape.                 *)
(***************************************************************************)
\* the safe characters as the contract lists them:
\* word characters and  -  .  /  :  =  @  %
IsListedSafe(c) ==
  \/ (c >= 97 /\ c <= 122) \/ (c >= 65 /\ c <= 90) \/ (c >= 48 /\ c <= 57) \/ c = 95
  \/ c \in {45, 46, 47, 58, 61, 64, 37}

OnlyListedSafe(s) == \A i \in 1..Len(s) : IsListedSafe(s[i])

\* s between two quote characters q, every q inside it written as esc and
\* every other character as itself
QuotedWith(s, q, esc) ==
  <<q>> \o FlatMap(s, LAMBDA c : IF c = q THEN esc ELSE <<c>>) \o <<q>>

\* C1: on both platforms escapeShellArg returns the empty token, and every
\* token made only of safe characters, unchanged: no quote is added.
C1_SafeTokenUnchanged ==
  pc = "escaped" /\ OnlyListedSafe(call.arg) => ret = call.arg

\* the token a-% came back as it went in, on win32
C1_Witness ==
  /\ pc = "escaped"
  /\ platform = "win32"
  /\ call.arg = <<97, 45, 37>>
  /\ ret = <<97, 45, 37>>

\* C2: off win32, a token with a character outside the safe set comes back
\* as ' + the token, each ' in it written as '\'' and every other character
\* as it is + '.
C2_PosixSingleQuoted ==
  pc = "escaped" /\ platform # "win32" /\ ~OnlyListedSafe(call.arg)
    => ret = QuotedWith(call.arg, 39, <<39, 92, 39, 39>>)

\* the token a'\ came back as 'a'\''\'
C2_Witness ==
  /\ pc = "escaped"
  /\ platform = "posix"
  /\ call.arg = <<97, 39, 92>>
  /\ ret = <<39, 97, 39, 92, 39, 39, 92, 39>>

\* a POSIX shell reading the word w from position i on: outside quotes a '
\* opens a quoted run and a \ makes the next character literal; inside a
\* quoted run everything up to the next ' is literal.  ok = FALSE: the word
\* ends inside a quoted run or after a lone \
RECURSIVE PosixReadFrom(_, _, _)
PosixReadFrom(w, i, inQuote) ==
  IF i > Len(w) THEN [ok |-> ~inQuote, val |-> <<>>]
  ELSE IF w[i] = 39 THEN PosixReadFrom(w, i + 1, ~inQuote)
  ELSE IF ~inQuote /\ w[i] = 92
  THEN IF i = Len(w) THEN [ok |-> FALSE, val |-> <<>>]
       ELSE Let(PosixReadFrom(w, i + 2, FALSE), LAMBDA r :
              [ok |-> r.ok, val |-> <<w[i + 1]>> \o r.val])
  ELSE Let(PosixReadFrom(w, i + 1, inQuote), LAMBDA r :
         [ok |-> r.ok, val |-> <<w[i]>> \o r.val])

\* the win32 convention reading the word w from position i on: a " opens or
\* closes a quoted string, a \ before a " or a \ makes that character
\* literal, every other character is literal.  ok = FALSE: the word ends
\* inside a quoted string
RECURSIVE Win32ReadFrom(_, _, _)
Win32ReadFrom(w, i, inQuote) ==
  IF i > Len(w) THEN [ok |-> ~inQuote, val |-> <<>>]
  ELSE IF w[i] = 92 /\ i < Len(w) /\ w[i + 1] \in {34, 92}
  THEN Let(Win32ReadFrom(w, i + 2, inQuote), LAMBDA r :
         [ok |-> r.ok, val |-> <<w[i + 1]>> \o r.val])
  ELSE IF w[i] = 34 THEN Win32ReadFrom(w, i + 1, ~inQuote)
  ELSE Let(Win32ReadFrom(w, i + 1, inQuote), LAMBDA r :
         [ok |-> r.ok, val |-> <<w[i]>> \o r.val])

\* the token a command line carries as the word w, on platform plat
ReadBack(w, plat) ==
  IF plat = "win32" THEN Win32ReadFrom(w, 1, FALSE) ELSE PosixReadFrom(w, 1, FALSE)

\* C3: on both platforms the word escapeShellArg returns for a token reads
\* back, under the platform's quoting convention, as exactly that token.
C3_ReadsBackAsGiven ==
  pc = "escaped" => ReadBack(ret, platform) = [ok |-> TRUE, val |-> call.arg]

\* C4: on win32, a token with a character outside the safe set comes back
\* as " + the token, a \ put before each " in it and nothing else changed
\* (no \ is doubled or removed) + ".
C4_Win32DoubleQuoted ==
  pc = "escaped" /\ platform = "win32" /\ ~OnlyListedSafe(call.arg)
    => ret = QuotedWith(call.arg, 34, <<92, 34>>)

\* the token \"a came back as "\\"a"
C4_Witness ==
  /\ pc = "escaped"
  /\ platform = "win32"
  /\ call.arg = <<92, 34, 97>>
  /\ ret = <<34, 92, 92, 34, 97, 34>>

(***************************************************************************)
(* Properties of resolvePath, checked under SpecResolve.                   *)
(***************************************************************************)
\* the options carry a base repository location
HasBase(options) == "repositoryUrl" \in DOMAIN options /\ options.repositoryUrl # <<>>

\* the base location B without its trailing slash
WithoutTrailingSlash(B) == IF B[Len(B)] = 47 THEN SubSeq(B, 1, Len(B) - 1) ELSE B

\* C5: with a base B, resolvePath answers each of the raw paths '/', '.' and
\* './' with B less its trailing slash; the answer is never B followed by '/'.
C5_RootGivesBase ==
  pc = "resolved" /\ HasBase(call.options)
    /\ call.path \in { <<47>>, <<46>>, <<46, 47>> }
    => /\ ret = WithoutTrailingSlash(call.options.repositoryUrl)
       /\ ret # WithoutTrailingSlash(call.options.repositoryUrl) \o <<47>>

\* './' under the base https://h/r/ resolved to https://h/r
C5_Witness ==
  /\ pc = "resolved"
  /\ call.path = <<46, 47>>
  /\ call.options = [repositoryUrl |-> <<104, 116, 116, 112, 115, 58, 47, 47, 104, 47, 114, 47>>]
  /\ ret = <<104, 116, 116, 112, 115, 58, 47, 47, 104, 47, 114>>

\* C6: with a base, resolving the result of resolvePath for a URL once more,
\* same options, gives that result again.
C6_ResolveTwiceIsResolveOnce ==
  pc = "reresolved" /\ HasBase(call.options) /\ isUrl(call.path) => ret = prev

\* the scheme of the base location B, lower-cased
BaseScheme(B) == LowerCase(SubSeq(B, 1, FirstIn(B, {58}) - 1))

\* the raw path p is relative and made of plain segments: no scheme, no empty
\* segment (so no leading, trailing or doubled '/'), no '.' and no '..'
IsPlainRelative(p) ==
  /\ p # <<>>
  /\ ~isUrl(p)
  /\ \A g \in {Split(p, {47})[i] : i \in 1..Len(Split(p, {47}))} :
       g \notin { <<>>, <<46>>, <<46, 46>> }

\* percentEncode(decode(segment)) for every segment of p, joined by '/'
EncodedRelative(p) ==
  Let(Split(p, {47}), LAMBDA segs :
    Join([i \in 1..Len(segs) |-> encodeURIComponent(decodeHtmlEntities(segs[i]))], <<47>>))

\* C7: with a base B (here: every https base of the model) and a relative
\* path p of plain segments, resolvePath returns B less its trailing slash,
\* '/', and the segments of p, each percentEncode(decode(segment)); none of
\* '?', '#', space and the non-ASCII characters is left raw after the base.
C7_SegmentsEncoded ==
  pc = "resolved" /\ HasBase(call.options) /\ IsPlainRelative(call.path)
    /\ BaseScheme(call.options.repositoryUrl) = <<104, 116, 116, 112, 115>>
    => LET base == WithoutTrailingSlash(call.options.repositoryUrl)
       IN  /\ ret = base \o <<47>> \o EncodedRelative(call.path)
           /\ \A i \in (Len(base) + 1)..Len(ret) : ret[i] \notin {63, 35, 32} /\ ret[i] < 128

\* the 'scheme://host' the base location B starts with
SchemeAndHost(B) ==
  Let(FirstIn(B, {58}), LAMBDA k :
    SubSeq(B, 1, k + 2) \o Before(DropN(B, k + 2), {47}))

\* C8: with a base scheme://host/path, whatever the scheme, the result of
\* resolvePath starts with the base's scheme://host exactly as given.
C8_SchemeAndHostKept ==
  pc = "resolved" /\ HasBase(call.options) /\ call.path # <<>>
    => StartsWith(ret, SchemeAndHost(call.options.repositoryUrl))

\* C9: with a base (here: every https and file base of the model, whose
\* scheme://host the result keeps), the result of resolvePath for a non-empty
\* raw path has the base less its trailing slash as a prefix.
C9_ResultWithinBase ==
  pc = "resolved" /\ HasBase(call.options) /\ call.path # <<>>
    /\ BaseScheme(call.options.repositoryUrl) \in SpecialSchemes
    => StartsWith(ret, WithoutTrailingSlash(call.options.repositoryUrl))

\* a path that starts with a Windows drive letter and ':'
IsDrivePath(p) == Len(p) >= 2 /\ IsAlpha(p[1]) /\ p[2] = 58

\* what path.win32.normalize makes of a drive-letter path: the drive stays
\* and the rest is normalized
NormalizedDrivePath(p) == SubSeq(p, 1, 2) \o win32Normalize(DropN(p, 2))

\* C11: with no base (here: on win32), resolvePath treats a drive-letter
\* path as a local path: the drive letter stays as given and the '.' and
\* '..' segments are normalized by the platform's path rules.
C11_DrivePathIsLocal ==
  pc = "resolved" /\ platform = "win32" /\ ~HasBase(call.options)
    /\ IsDrivePath(call.path)
    => ret = NormalizedDrivePath(call.path)

(***************************************************************************)
(* Properties of buildSvnArgs, checked under Spec.                         *)
(***************************************************************************)
\* a local path made only of safe characters: no flag, no number, no URL
IsSafeLocalPath(arg) ==
  /\ arg # <<>>
  /\ OnlyListedSafe(arg)
  /\ ~StartsWith(arg, <<45, 45>>)
  /\ ~(\A i \in 1..Len(arg) : arg[i] >= 48 /\ arg[i] <= 57)
  /\ \A i \in 1..Len(arg) : arg[i] # 58

\* the last n words of the command line, words being separated by spaces
LastWords(command, n) ==
  Let(Split(command, {32}), LAMBDA words : SubSeq(words, Len(words) - n + 1, Len(words)))

\* C10: with no base in the merged options (here: off win32, where the
\* separator of a local path is '/'), the command line buildSvnArgs returns
\* ends with its local path arguments of safe characters exactly as they
\* were given: '/a/b.c', './a/b.c' and 'a.c' alike.
C10_LocalPathsVerbatim ==
  pc = "built" /\ platform # "win32" /\ ~HasBase(ret.options) /\ call.args # <<>>
    /\ (\A i \in 1..Len(call.args) : IsSafeLocalPath(call.args[i]))
    => LastWords(ret.command, Len(call.args)) = call.args

\* s ends with suf
EndsWith(s, suf) == Len(s) >= Len(suf) /\ SubSeq(s, Len(s) - Len(suf) + 1, Len(s)) = suf

\* sub occurs in s
Contains(s, sub) == \E i \in 1..(Len(s) - Len(sub) + 1) : SubSeq(s, i, i + Len(sub) - 1) = sub

\* the flags of the command line, as words
WordNonInteractive ==
  <<45, 45, 110, 111, 110, 45, 105, 110, 116, 101, 114, 97, 99, 116, 105, 118, 101>>
WordTrustServerCert ==
  <<45, 45, 116, 114, 117, 115, 116, 45, 115, 101, 114, 118, 101, 114, 45, 99, 101, 114, 116>>
WordNoAuthCache == <<45, 45, 110, 111, 45, 97, 117, 116, 104, 45, 99, 97, 99, 104, 101>>
WordUsername == <<45, 45, 117, 115, 101, 114, 110, 97, 109, 101>>
WordPassword == <<45, 45, 112, 97, 115, 115, 119, 111, 114, 100>>
WordRevision == <<45, 45, 114, 101, 118, 105, 115, 105, 111, 110>>

\* the field f of the options o holds the value v
FieldIs(o, f, v) == f \in DOMAIN o /\ o[f] = v

\* the field f of the options o holds a non-empty string
FieldPresent(o, f) == f \in DOMAIN o /\ o[f] # <<>>

\* the flag words the effective options o call for, in the order of the contract
FlagWordsInOrder(o) ==
  (IF FieldIs(o, "nonInteractive", FALSE) THEN <<>> ELSE <<WordNonInteractive>>)
  \o (IF FieldIs(o, "trustServerCert", TRUE) THEN <<WordTrustServerCert>> ELSE <<>>)
  \o (IF FieldIs(o, "noAuthCache", TRUE) THEN <<WordNoAuthCache>> ELSE <<>>)
  \o (IF FieldPresent(o, "username") THEN <<WordUsername, o.username>> ELSE <<>>)
  \o (IF FieldPresent(o, "password") THEN <<WordPassword, o.password>> ELSE <<>>)

\* the positional arguments as the command line carries them
PositionalWords ==
  [i \in 1..Len(call.args) |->
     escapeShellArg(resolvePathArg(call.args[i], ret.options, platform), platform)]

\* C12: the command line is 'svn', the subcommand, --non-interactive unless
\* the effective nonInteractive is false, --trust-server-cert if set,
\* --no-auth-cache if set, --username u if present, --password p if present,
\* then the positional arguments in their order, joined by single spaces.
C12_FlagsInFixedOrder ==
  pc = "built"
    => ret.command = Join(<< <<115, 118, 110>>, call.command >>
                            \o FlagWordsInOrder(ret.options) \o PositionalWords, <<32>>)

\* svn info --non-interactive --trust-server-cert --no-auth-cache
\* --username u --password p a.c
C12_Witness ==
  /\ pc = "built"
  /\ call.args = << <<97, 46, 99>> >>
  /\ ret.command = Join(<< <<115, 118, 110>>, <<105, 110, 102, 111>>, WordNonInteractive,
                           WordTrustServerCert, WordNoAuthCache, WordUsername, <<117>>,
                           WordPassword, <<112>>, <<97, 46, 99>> >>, <<32>>)

\* C13: the effective options buildSvnArgs returns carry, for every field,
\* the per-call value when the per-call record has the field and the default
\* value otherwise; and the command line is the one built from them.
C13_PerCallOverDefaults ==
  pc = "built"
    => /\ DOMAIN ret.options = (DOMAIN defaultOptions) \cup (DOMAIN call.options)
       /\ \A f \in DOMAIN ret.options :
            ret.options[f] = IF f \in DOMAIN call.options THEN call.options[f]
                             ELSE defaultOptions[f]
       /\ ret.command = Join(<< <<115, 118, 110>>, call.command >>
                               \o FlagWordsInOrder(ret.options) \o PositionalWords, <<32>>)

\* the per-call username v replaced the default u, the default
\* trustServerCert stayed, and the command line names v
C13_Witness ==
  /\ pc = "built"
  /\ FieldIs(defaultOptions, "username", <<117>>)
  /\ FieldIs(defaultOptions, "trustServerCert", TRUE)
  /\ FieldIs(call.options, "username", <<118>>)
  /\ ret.options.username = <<118>>
  /\ ret.options.trustServerCert = TRUE
  /\ Contains(ret.command, WordUsername \o <<32, 118, 32>>)

\* the positional argument a goes through the path resolver
GoesThroughResolver(a) ==
  /\ a # <<>>
  /\ ~(Len(a) >= 2 /\ a[1] = 45 /\ a[2] = 45)
  /\ ~(\A i \in 1..Len(a) : a[i] >= 48 /\ a[i] <= 57)

\* what the resolver gives for a, or a itself when it gives nothing
ResolvedOrOriginal(a, options, plat) ==
  Let(resolvePath(a, options, plat), LAMBDA r : IF r = <<>> THEN a ELSE r)

\* C14: a positional argument goes through the path resolver exactly when it
\* is non-empty, does not start with '--' and is not purely digits, the
\* original token being used when resolution yields nothing; any other token
\* stays as it is; every positional argument is then escaped.
C14_ResolvedUnlessFlagOrNumber ==
  pc = "built" /\ call.args # <<>>
    => EndsWith(ret.command,
                Join([i \in 1..Len(call.args) |->
                        escapeShellArg(IF GoesThroughResolver(call.args[i])
                                       THEN ResolvedOrOriginal(call.args[i], ret.options, platform)
                                       ELSE call.args[i], platform)], <<32>>))

\* under the base https://h/r the arguments 12 and a.c came out as
\* 12 and https://h/r/a.c
C14_Witness ==
  /\ pc = "built"
  /\ call.args = << <<49, 50>>, <<97, 46, 99>> >>
  /\ FieldPresent(ret.options, "repositoryUrl")
  /\ EndsWith(ret.command, <<32, 49, 50, 32, 104, 116, 116, 112, 115, 58, 47, 47, 104, 47,
                             114, 47, 97, 46, 99>>)

\* the revision values of the model:  HEAD  12
RevisionValues == { <<72, 69, 65, 68>>, <<49, 50>> }

\* C15: the token that follows a value-taking flag (here: a revision keyword
\* or number after --revision) reaches the command line with its content
\* unchanged by path resolution, whatever the options, a base repository
\* location included.
C15_FlagValueVerbatim ==
  pc = "built" /\ call.args # <<>>
    => EndsWith(ret.command,
                Join([i \in 1..Len(call.args) |->
                        IF i > 1 /\ call.args[i - 1] = WordRevision
                           /\ call.args[i] \in RevisionValues
                        THEN escapeShellArg(call.args[i], platform)
                        ELSE PositionalWords[i]], <<32>>))

\* C16: every caller-supplied string of the command line, the username and
\* the password included, is made of safe characters only or is in the
\* quoted form the escaper gives it.
C16_CallerStringsEscaped ==
  pc = "built"
    => /\ FieldPresent(ret.options, "username")
            => Contains(ret.command \o <<32>>,
                        <<32>> \o WordUsername \o <<32>>
                          \o escapeShellArg(ret.options.username, platform) \o <<32>>)
       /\ FieldPresent(ret.options, "password")
            => Contains(ret.command \o <<32>>,
                        <<32>> \o WordPassword \o <<32>>
                          \o escapeShellArg(ret.options.password, platform) \o <<32>>)

(***************************************************************************)
(* Claims about executeCommand, checked under SpecExec.                    *)
(***************************************************************************)
\* the behaviour of the subprocess of the call that has returned
LastBehaviour == children[Len(children)].behaviour

\* the subprocess wrote more than the ceiling to stdout
Overflowed ==
  /\ children # <<>>
  /\ "out" \in DOMAIN LastBehaviour
  /\ OutLength(LastBehaviour.out) > MAX_BUFFER

\* the subprocess ran the command to its end, with this test on its status
RanAndExited(Test(_)) ==
  /\ children # <<>>
  /\ LastBehaviour.kind = "exit"
  /\ ~Overflowed
  /\ Test(LastBehaviour.status)

\* the launch failed: no svn binary, no shell, or no working directory
LaunchFailed ==
  \/ children = <<>>
  \/ LastBehaviour.kind \in {"noBinary", "spawnError"}

\* C17: a normal completion gives success=true with trimmed stdout and
\* stderr and no exit code; a subprocess that exited non-zero gives
\* success=false with its exit code and its trimmed stdout and stderr; a
\* launch failure, a missing binary included, gives success=false with no
\* exit code and a description in stderr.
C17_OutcomesClassified ==
  pc = "returned"
    => /\ RanAndExited(LAMBDA s : s = 0)
            => ret = [success |-> TRUE,
                      stdout |-> TrimOut(LastBehaviour.out),
                      stderr |-> Trim(LastBehaviour.err)]
       /\ RanAndExited(LAMBDA s : s # 0)
            => /\ ret.success = FALSE
               /\ "code" \in DOMAIN ret
               /\ ret.code = Num(LastBehaviour.status)
               /\ ret.stdout = TrimOut(LastBehaviour.out)
               /\ ret.stderr = Trim(LastBehaviour.err)
       /\ LaunchFailed
            => /\ ret.success = FALSE
               /\ "code" \notin DOMAIN ret
               /\ ret.stderr # <<>>

\* ret is a well-formed result of executeCommand
IsResult(r) ==
  /\ {"success", "stdout", "stderr"} \subseteq DOMAIN r
  /\ r.success \in BOOLEAN

C19_NoTruncatedOutput ==
  Overflowed
    => /\ pc = "returned" => ret.success = FALSE
       /\ pc = "done"
            => ret # TrimOut(Truncate(LastBehaviour.out, MAX_BUFFER))

\* the options executeCommand works with
EffectiveOptions ==
  IF call.op = "executeCommand"
  THEN IF "mergedOptions" \in DOMAIN call THEN call.mergedOptions ELSE defaultOptions
  ELSE Spread(defaultOptions, call.options)

\* the variables the subprocess environment was to be given
AssignedVariables ==
  {"LANG", "LC_ALL"}
    \cup (IF platform = "win32" THEN {"LC_MESSAGES"} ELSE {})
    \cup (IF FieldPresent(EffectiveOptions, "username") THEN {"SVN_USERNAME"} ELSE {})
    \cup (IF FieldPresent(EffectiveOptions, "password") THEN {"SVN_PASSWORD"} ELSE {})

\* the environment env is the host environment but for the assigned variables
EnvironmentAsClaimed(env) ==
  /\ DOMAIN env = DOMAIN processEnv \cup AssignedVariables
  /\ \A v \in DOMAIN env :
       env[v] = IF v \in {"LANG", "LC_ALL", "LC_MESSAGES"} /\ v \in AssignedVariables
                  THEN <<67>>
                ELSE IF v = "SVN_USERNAME" /\ v \in AssignedVariables
                  THEN EffectiveOptions.username
                ELSE IF v = "SVN_PASSWORD" /\ v \in AssignedVariables
                  THEN EffectiveOptions.password
                ELSE processEnv[v]

\* C20: the subprocess environment is the host environment except that LANG
\* and LC_ALL are 'C', LC_MESSAGES is 'C' on win32, and SVN_USERNAME and
\* SVN_PASSWORD are the effective username and password when those are
\* present; every other variable is inherited unchanged, and the host
\* environment itself never changes.
C20_EnvironmentOverrides ==
  /\ [](\A i \in 1..Len(children) : EnvironmentAsClaimed(children[i].env))
  /\ [][processEnv' = processEnv]_vars

\* off win32, with LANG=fr and LC_MESSAGES=fr in the host environment and
\* the credentials v and 'p w': LANG is C, LC_MESSAGES is still fr
C20_Witness ==
  /\ pc = "awaiting"
  /\ platform = "posix"
  /\ processEnv = [PATH |-> <<47, 98>>, LANG |-> <<102, 114>>, LC_MESSAGES |-> <<102, 114>>]
  /\ children[1].env = [PATH |-> <<47, 98>>, LANG |-> <<67>>, LC_ALL |-> <<67>>,
                        LC_MESSAGES |-> <<102, 114>>, SVN_USERNAME |-> <<118>>,
                        SVN_PASSWORD |-> <<112, 32, 119>>]

(***************************************************************************)
(* Claims about the output parsers, checked under SpecParse.               *)
(***************************************************************************)
\* C22: info never returns an entity with no fields: for a successful
\* output in which no line has a recognized key with a non-blank value it
\* returns null.
C22_NoEntityWithoutKey ==
  pc = "parsed" /\ call.op = "info" => ret # NoOptions

\* C23: parseStatusOutput yields one item per <entry path=...> of the
\* document, in document order, each with the path of the entry and the
\* table character of the item attribute of its <wc-status>, with or
\* without a revision attribute or a nested commit.
C23_OneItemPerEntry ==
  pc = "parsed" /\ call.op = "parseStatusOutput" /\ call.kind = "status"
    => /\ Len(ret) = Len(call.entries)
       /\ \A i \in 1..Len(ret) :
            /\ ret[i].path = call.entries[i].path
            /\ ret[i].status = call.entries[i].char

\* the root element of each XML parser
RootOf(op) ==
  CASE op = "parseStatusOutput" -> <<115, 116, 97, 116, 117, 115>>
    [] op = "parseLogOutput" -> <<108, 111, 103>>
    [] op = "parseListOutput" -> <<108, 105, 115, 116, 115>>

\* the document kind of each XML parser
KindOf(op) ==
  CASE op = "parseStatusOutput" -> "status"
    [] op = "parseLogOutput" -> "log"
    [] op = "parseListOutput" -> "list"

\* the text has no start tag of the element: neither <tag> nor <tag ...>
LacksElement(text, tag) ==
  /\ ~Contains(text, <<60>> \o tag \o <<62>>)
  /\ ~Contains(text, <<60>> \o tag \o <<32>>)

\* C24: an XML parser returns the empty list for every input that lacks its
\* root element, and for a document with the root element and no entries.
C24_EmptySafe ==
  pc = "parsed" /\ call.op \in {"parseStatusOutput", "parseLogOutput", "parseListOutput"}
    => /\ LacksElement(call.text, RootOf(call.op)) => ret = <<>>
       /\ call.kind = KindOf(call.op) /\ call.entries = <<>> => ret = <<>>

\* C25: parseLogOutput yields one entry per <logentry revision="N"> of the
\* document, in document order, with revision N and the decoded texts of
\* <author>, <date> and <msg>, messages of several lines included; paths is
\* absent without a <paths> block and holds the <path> children otherwise.
C25_OneEntryPerLogentry ==
  pc = "parsed" /\ call.op = "parseLogOutput" /\ call.kind = "log"
    => /\ Len(ret) = Len(call.entries)
       /\ \A i \in 1..Len(ret) :
            /\ ret[i].revision = call.entries[i].revision
            /\ ret[i].author = call.entries[i].author
            /\ ret[i].date = call.entries[i].date
            /\ ret[i].message = call.entries[i].msg
            /\ ("paths" \in DOMAIN ret[i]) = call.entries[i].verbose
            /\ call.entries[i].verbose => ret[i].paths = call.entries[i].paths

\* the entities decodeHtmlEntities knows by name, each with its character
NamedEntities ==
  << <<<<38, 97, 109, 112, 59>>, <<38>>>>, <<<<38, 108, 116, 59>>, <<60>>>>, <<<<38, 103, 116, 59>>, <<62>>>>, <<<<38, 113, 117, 111, 116, 59>>, <<34>>>>,
     <<<<38, 35, 51, 57, 59>>, <<39>>>>, <<<<38, 35, 120, 50, 55, 59>>, <<39>>>>, <<<<38, 35, 120, 50, 70, 59>>, <<47>>>> >>

\* the length of the numeric reference &#..; or &#x..; that stands in s at
\* position i, 0 if none does
NumericRefAt(s, i, hex) ==
  Let(IF hex THEN i + 3 ELSE i + 2, LAMBDA d :
    Let(IF /\ d <= Len(s)
           /\ s[i] = 38 /\ s[i + 1] = 35
           /\ (hex => s[i + 2] \in {120, 88})
        THEN DigitRun(s, d, hex) ELSE 0, LAMBDA n :
      IF n > 0 /\ d + n <= Len(s) /\ s[d + n] = 59 THEN d + n + 1 - i ELSE 0))

\* one level of entity encoding removed from s[i..]: every entity is
\* replaced by its character in a single pass from left to right, and the
\* characters so produced are not read again
RECURSIVE OnePass(_, _)
OnePass(s, i) ==
  IF i > Len(s) THEN <<>>
  ELSE Let(SelectSeq(NamedEntities, LAMBDA e : LitAt(s, i, e[1])), LAMBDA named :
       Let(NumericRefAt(s, i, FALSE), LAMBDA dec :
       Let(NumericRefAt(s, i, TRUE), LAMBDA hex :
         IF named # <<>> THEN named[1][2] \o OnePass(s, i + Len(named[1][1]))
         ELSE IF dec > 0
         THEN FromCharCode(ParseInt(s, i + 2, i + dec - 2, 10)) \o OnePass(s, i + dec)
         ELSE IF hex > 0
         THEN FromCharCode(ParseInt(s, i + 3, i + hex - 2, 16)) \o OnePass(s, i + hex)
         ELSE <<s[i]>> \o OnePass(s, i + 1))))

\* the text with its URL escapes decoded when they are all valid, then one
\* level of entity encoding removed
DecodedOnce(text) ==
  Let(decodeURIComponent(text), LAMBDA u : OnePass(IF u.ok THEN u.val ELSE text, 1))

\* C26: decodeHtmlEntities removes exactly one level of encoding: '&amp;lt;'
\* gives '&lt;' and '&amp;amp;' gives '&amp;'; a '%' that is no valid
\* escape leaves the text without URL decoding.
C26_DecodedExactlyOnce ==
  pc = "parsed" /\ call.op = "decodeHtmlEntities" => ret = DecodedOnce(call.text)

(***************************************************************************)
(* Claims about the read operations, export and checkout, checked under    *)
(* SpecOps.                                                                *)
(***************************************************************************)
\* the empty or absent result of a read operation
EmptyReturn(op) ==
  CASE op = "info" -> Null
    [] op \in {"status", "log", "list"} -> <<>>
    [] op \in {"cat", "diff"} -> EmptyOut

\* C21: whenever the execution result has success = false, info returns
\* null, status, log and list return an empty list, and cat and diff return
\* an empty string.
C21_FailureGivesEmpty ==
  pc = "done" /\ call.op \in ReadOps /\ ~prev.success => ret = EmptyReturn(call.op)

\* C27: whatever the options and the default options, the two positional
\* arguments of the checkout command are derived from the repositoryUrl and
\* the localPath of the caller alone: neither is joined onto a base.
C27_CheckoutNotJoined ==
  pc = "awaiting" /\ call.op = "checkout"
    => LastWords(children[1].command, 2)
         = << escapeShellArg(ResolvedOrOriginal(call.path, NoOptions, platform), platform),
              escapeShellArg(ResolvedOrOriginal(call.path2, NoOptions, platform), platform) >>

\* the path resolved once with the options in effect, then escaped
ResolvedOnce(path) ==
  escapeShellArg(resolvePath(path, mergeOptions(defaultOptions, call.options), platform),
                 platform)

\* C28: with a base in effect, each path positional of the command of diff
\* and the source positional of the command of export is the path resolved
\* against the base once, then escaped.
C28_ResolvedExactlyOnce ==
  pc = "awaiting" /\ call.op \in {"diff", "export"}
  /\ HasBase(mergeOptions(defaultOptions, call.options))
    => IF call.op = "diff"
       THEN LastWords(children[1].command, IF call.path2 = <<>> THEN 1 ELSE 2)
              = <<ResolvedOnce(call.path)>>
                  \o (IF call.path2 = <<>> THEN <<>> ELSE <<ResolvedOnce(call.path2)>>)
       ELSE LastWords(children[1].command, 2)[1] = ResolvedOnce(call.path)

(***************************************************************************)
(* Claims about concurrent calls, checked under SpecConc.                  *)
(***************************************************************************)
\* the options in effect for the call of caller c: its per-call options
\* over the options configured when it was called
EffectiveAtCall(c) == mergeOptions(prev.atCall[c], call[c].options)

\* C29: the command line and the environment of a running call are those
\* computed from the options in effect when it was called, whatever
\* setDefaultOptions and the other caller have done since, and the value it
\* returns is made of the outcome of its own subprocess; neither holds an
\* option or a credential of the other caller.
C29_OneSnapshotPerCall ==
  \A c \in Callers :
    pc[c] # "idle"
      => /\ children[c][1].command
              = ReadBuilt(call[c].op, call[c].path, <<>>, call[c].options,
                          prev.atCall[c], platform).command
         /\ children[c][1].env = buildEnvironment(EffectiveAtCall(c), processEnv, platform)
         /\ pc[c] = "returned"
              => ret[c] = ReadReturn(call[c].op,
                            ExecutionResult(execAsync(children[c][1].command,
                                                      children[c][1].behaviour,
                                                      MAX_BUFFER, platform)))

\* both callers have returned, each with its own credentials in the
\* environment of its subprocess, after setDefaultOptions ran while they
\* were suspended
C29_Witness ==
  /\ \A c \in Callers : pc[c] = "returned" /\ call[c].options # NoOptions
  /\ \A c \in Callers : prev.atCall[c] = NoOptions
  /\ "repositoryUrl" \in DOMAIN defaultOptions
  /\ children[1][1].env.SVN_USERNAME # children[2][1].env.SVN_USERNAME
  /\ ret[1] # Null /\ ret[2] = EmptyOut

(***************************************************************************)
(* Claims about the default options of the two services, checked under     *)
(* SpecFacade.                                                             *)
(***************************************************************************)
\* the index of the last record of history that carries the field f
LastCarrying(history, f) ==
  CHOOSE i \in 1..Len(history) :
    /\ f \in DOMAIN history[i]
    /\ \A j \in (i + 1)..Len(history) : f \notin DOMAIN history[j]

\* the shallow merge of the records of history from left to right: every
\* field carried by some record, with the value of the last one carrying it
MergedLeftToRight(history) ==
  [f \in UNION {DOMAIN history[i] : i \in 1..Len(history)}
     |-> history[LastCarrying(history, f)][f]]

\* C30: after any calls of SvnService.setDefaultOptions interleaved with
\* operations, the read service and the write service hold the same default
\* options, the shallow merge from left to right of the records handed over
\* so far; and the options record of a caller is after the call what it was
\* before.
C30_DefaultsAreTheMerge ==
  /\ defaultOptions.read = MergedLeftToRight(prev)
  /\ defaultOptions.write = MergedLeftToRight(prev)
  /\ pc # "idle" => call.options = call.given

\* setDefaultOptions ran three times, the last record overriding one field
\* of the first and keeping the other, and a checkout with a repositoryUrl
\* of its own has returned
C30_Witness ==
  /\ Len(prev) = MaxSets
  /\ "repositoryUrl" \in DOMAIN prev[1]
  /\ "repositoryUrl" \notin DOMAIN prev[Len(prev)]
  /\ defaultOptions.write.username = prev[Len(prev)].username
  /\ defaultOptions.write.username # prev[1].username
  /\ pc = "returned" /\ call.op = "checkout"
  /\ "repositoryUrl" \in DOMAIN call.given

====
